---- MODULE Spec2Model ----
(***************************************************************************)
(* The Archive Metadata Store of comic-tagger (src/tagging.py) and the     *)
(* read-only inspector (src/inspect_files.py) as a state machine over one  *)
(* archive file.                                                           *)
(*                                                                         *)
(* A string is a sequence of one-character strings, so that strip() and    *)
(* split(',') are computed.  A file on disk is a record                    *)
(*   [complete |-> BOOLEAN, entries |-> sequence of [filename, data]]      *)
(* where complete says that the ZIP central directory was written: a file  *)
(* that is not complete cannot be opened by zipfile.ZipFile (BadZipFile).  *)
(* The data of an entry is a record [wf, decl, elems, raw]: wf says the    *)
(* bytes are a well-formed XML document, decl is the set of namespace      *)
(* declarations on its root element, elems its child elements in document  *)
(* order, raw the payload of an entry that is not XML.                     *)
(*                                                                         *)
(* Spec is the store under any sequence of tag, erase and check calls.     *)
(* DispatchSpec is one request through handle_tagging_dispatch (the menu   *)
(* of src/comic-tagger.py and other callers) or handle_tagging (the 'tag'  *)
(* subcommand of src/comic_tagger_cli.py): the path test, the record from  *)
(* the catalog or from a local JSON file, map_cv_to_comicinfo_dict, the    *)
(* store, and the value handed back.                                       *)
(* MapperSpec is one call of map_cv_to_comicinfo_dict, FetchSpec one call  *)
(* of make_comicvine_api_request (src/fetch_api.py), TranslateSpec one     *)
(* call of translate_text (src/translator.py) and CheckSpec one call of    *)
(* handle_check (src/inspect_files.py); FetchLive and TranslateLive add    *)
(* weak fairness of the function's steps.                                  *)
(***************************************************************************)
EXTENDS Integers, Sequences, FiniteSets, TLC

VARIABLES
    archive,              \* the file at cbz_path
    tempFile,             \* <<>> or <<file>>: the file at temp_zip_path
    temp_fd,              \* TRUE while the descriptor of mkstemp is open
    sameFs,               \* environment: tempfile.gettempdir() is on the archive's filesystem
    pc,                   \* position in the running operation
    op,                   \* "none", "tag", "erase" or "check"
    overwrite_all,        \* args.overwrite_all of the running tag
    comic_info_metadata,  \* the new record: a sequence of <<key, value>>, keys distinct
    existing_comic_info_root, \* <<>> (None) or <<tree>>
    xml_string_bytes,     \* <<>> or <<data>>: the serialized document of the running tag
    result,               \* "none", "True", "False": what the store returned
    failedAt,             \* "none" or the step that raised
    orig,                 \* history: the archive when the operation began
    staged,               \* history: <<>> or <<file>>, the container as completely staged
    tempsCreated,         \* history: temporary files created by the operation
    swapStarted,          \* history: shutil.move was called by the operation
    prev,                 \* history: the previous operation
    inspected,            \* what read_comic_info_from_archive returned to the last check
    args,                 \* the request given to the handler: a namespace of attributes
    world,                \* environment: the catalog's answer, the local metadata file,
                          \* the other files of the archive's directory
    returned,             \* what the handler gave back to its caller
    exit_status,          \* -1 while the process runs, else its exit status
    netCalls,             \* history: requests sent to the catalog
    netInFlight,          \* TRUE while a catalog request is awaiting its response
    mapperCalls,          \* history: calls of map_cv_to_comicinfo_dict
    archivePath,          \* the name of the archive file in its directory
    cvInput,              \* the catalog record given to the mapper
    mapOutput,            \* what the mapper returned
    reported,             \* the mapper printed a message about the cover date
    fallback_taken,       \* history: per contributor, the fallback added them to Artist
    mapPc,                \* "idle", "call" or "return": position of the mapper
    fetchUrl,             \* the url given to make_comicvine_api_request
    retries,              \* the local of make_comicvine_api_request
    requestsSent,         \* history: calls of requests.get
    lastResponse,         \* history: what the latest requests.get gave
    fetchResult,          \* what make_comicvine_api_request returned
    fetchPc,              \* "idle", "loop", "waiting" or "returned"
    trArgs,               \* the arguments of translate_text: text, target, max_retries
    apiKeySet,            \* environment: MISTRAL_API_KEY is configured
    translation_cache,    \* _translation_cache: a set of <<key, translation>>, keys distinct
    cacheAtCall,          \* history: _translation_cache when translate_text was called
    attempt,              \* the loop variable of translate_text
    postsSent,            \* history: calls of requests.post
    lastReply,            \* history: what the latest requests.post gave
    trResult,             \* what translate_text returned
    trPc,                 \* "idle", "call", "post", "waiting" or "returned"
    files_to_check_q,     \* the .cbz files the paths of handle_check resolve to
    shelf,                \* the archive file at each path
    shelfAtCall,          \* history: shelf when handle_check was called
    unique_files_to_check, \* the local of handle_check
    checkIndex,           \* the position of the loop of handle_check, from 1
    displayed,            \* history: the paths given to display_comic_info_details
    found_tags_count,     \* the local of handle_check
    summary,              \* <<>> or <<the counts the summary printed>>
    checkPc               \* "idle", "call", "loop", "summary", "returned" or "raised"

vars == <<archive, tempFile, temp_fd, sameFs, pc, op, overwrite_all, comic_info_metadata,
          existing_comic_info_root, xml_string_bytes, result, failedAt, orig, staged,
          tempsCreated, swapStarted, prev, inspected,
          args, world, returned, exit_status, netCalls, netInFlight, mapperCalls, archivePath,
          cvInput, mapOutput, reported, fallback_taken, mapPc,
          fetchUrl, retries, requestsSent, lastResponse, fetchResult, fetchPc,
          trArgs, apiKeySet, translation_cache, cacheAtCall, attempt, postsSent, lastReply,
          trResult, trPc,
          files_to_check_q, shelf, shelfAtCall, unique_files_to_check, checkIndex, displayed,
          found_tags_count, summary, checkPc>>

\* the state of the request handlers, untouched by the steps of the store
dispatchVars == <<args, world, returned, exit_status, netCalls, netInFlight, mapperCalls,
                  archivePath>>

\* the state of the archive store
storeVars == <<archive, tempFile, temp_fd, sameFs, pc, op, overwrite_all, comic_info_metadata,
               existing_comic_info_root, xml_string_bytes, result, failedAt, orig, staged,
               tempsCreated, swapStarted, prev, inspected>>

\* the state of a call of the mapper alone
mapperVars == <<cvInput, mapOutput, reported, fallback_taken, mapPc>>

\* the state of a call of make_comicvine_api_request alone
fetchVars == <<fetchUrl, retries, requestsSent, lastResponse, fetchResult, fetchPc>>

\* the state of a call of translate_text alone
translateVars == <<trArgs, apiKeySet, translation_cache, cacheAtCall, attempt, postsSent,
                   lastReply, trResult, trPc>>

\* the state of a call of handle_check alone
checkVars == <<files_to_check_q, shelf, shelfAtCall, unique_files_to_check, checkIndex,
               displayed, found_tags_count, summary, checkPc>>

\* the state of the functions studied alone, untouched by the store and the handlers
sideVars == <<mapperVars, fetchVars, translateVars, checkVars>>

-----------------------------------------------------------------------------
(* Bounds of the model *)

MaxEntries == 3
MaxFields == 2

-----------------------------------------------------------------------------
(* Strings *)

\* Python's None among record values: no string, since a string holds single characters.
None == <<"None">>

S_empty == <<>>
S_blank == <<" ">>
S_x == <<" ", "x">>
S_xy == <<"x", ",", "y">>
S_q == <<"q">>
S_r == <<"r">>

\* the white space str.strip() removes
Whitespace == {" ", "\n", "\t", "nbsp"}

RECURSIVE LStrip(_)
LStrip(s) ==
    IF s # <<>> /\ Head(s) \in Whitespace THEN LStrip(Tail(s)) ELSE s

RECURSIVE RStrip(_)
RStrip(s) ==
    IF s # <<>> /\ s[Len(s)] \in Whitespace THEN RStrip(SubSeq(s, 1, Len(s) - 1)) ELSE s

\* str.strip()
Strip(s) == RStrip(LStrip(s))

\* str.split(','): the pieces between commas, empty pieces included
RECURSIVE SplitComma(_, _)
SplitComma(s, cur) ==
    IF s = <<>> THEN <<cur>>
    ELSE IF Head(s) = "," THEN <<cur>> \o SplitComma(Tail(s), <<>>)
    ELSE SplitComma(Tail(s), Append(cur, Head(s)))

\* [item.strip() for item in text.split(',') if item.strip()]
RECURSIVE StrippedItems(_)
StrippedItems(pieces) ==
    IF pieces = <<>> THEN <<>>
    ELSE IF Strip(Head(pieces)) # <<>>
         THEN <<Strip(Head(pieces))>> \o StrippedItems(Tail(pieces))
         ELSE StrippedItems(Tail(pieces))

\* str.lower() on the entry names of the model: the only names with capitals are
\* spellings of the reserved name
comic_info_filename == "ComicInfo.xml"

Lower(name) ==
    IF name = "ComicInfo.xml" THEN "comicinfo.xml" ELSE name

comic_info_filename_lower == Lower(comic_info_filename)

-----------------------------------------------------------------------------
(* Records: Python dicts in insertion order *)

Keys(md) == {md[i][1] : i \in 1..Len(md)}

HasKey(md, k) == k \in Keys(md)

Get(md, k) == md[CHOOSE i \in 1..Len(md) : md[i][1] = k][2]

\* new_value is None or str(new_value).strip() == ""
IsBlankValue(v) == v = None \/ Strip(v) = <<>>

-----------------------------------------------------------------------------
(* The XML document *)

tag_order ==
    << "Title", "Series", "Number", "Count", "Volume", "AlternateSeries", "AlternateNumber",
       "AlternateCount", "Summary", "Notes", "Year", "Month", "Day",
       "Writer", "Penciller", "Inker", "Colorist", "Letterer", "CoverArtist", "Editor", "Artist",
       "Publisher", "Imprint",
       "Genre", "Web", "PageCount", "LanguageISO", "Format", "BlackAndWhite", "Manga",
       "Characters", "Teams", "Locations", "StoryArc", "SeriesGroup", "AgeRating",
       "ScanInformation" >>

InTagOrder(t) == \E i \in 1..Len(tag_order) : tag_order[i] = t

Elem(t, v) == [tag |-> t, text |-> v]

\* the loop over tag_order: one element per listed tag the record holds with a value
\* that is not None
RECURSIVE OrderedElems(_, _)
OrderedElems(md, i) ==
    IF i > Len(tag_order) THEN <<>>
    ELSE IF HasKey(md, tag_order[i]) /\ Get(md, tag_order[i]) # None
         THEN <<Elem(tag_order[i], Get(md, tag_order[i]))>> \o OrderedElems(md, i + 1)
         ELSE OrderedElems(md, i + 1)

\* the loop over metadata_dict.items(): the remaining keys, in insertion order
RECURSIVE RemainingElems(_, _)
RemainingElems(md, i) ==
    IF i > Len(md) THEN <<>>
    ELSE IF ~InTagOrder(md[i][1]) /\ md[i][2] # None
         THEN <<Elem(md[i][1], md[i][2])>> \o RemainingElems(md, i + 1)
         ELSE RemainingElems(md, i + 1)

\* root.set("xmlns:xsi", ...); root.set("xmlns:xsd", ...)
RootAttributes == {"xmlns:xsi", "xmlns:xsd"}

\* the element built from the listed tags alone, the second loop forgotten
create_listed_tags_only(metadata_dict) ==
    [attrib |-> RootAttributes, children |-> OrderedElems(metadata_dict, 1)]

create_comic_info_xml_element(metadata_dict) ==
    [attrib |-> RootAttributes,
     children |-> OrderedElems(metadata_dict, 1) \o RemainingElems(metadata_dict, 1)]

\* ET.tostring: the attributes named xmlns:* of the root are written as they are, and
\* read back they are namespace declarations.  ET.indent changes only the whitespace
\* between elements, which the data does not record.
tostring(root) ==
    [wf |-> TRUE, decl |-> root.attrib, elems |-> root.children, raw |-> "xml"]

\* ET.parse(...).getroot() of well-formed bytes: the parser consumes the namespace
\* declarations, they are not attributes of the parsed root
ParseRoot(data) ==
    [attrib |-> {}, children |-> data.elems]

\* bool(element): an Element is true when it has children
Truthy(rootOpt) == rootOpt # <<>> /\ Len(rootOpt[1].children) > 0

\* root.find(tag_name): the index of the first child with that tag, 0 for None
FindIndex(children, t) ==
    IF \E i \in 1..Len(children) : children[i].tag = t
    THEN CHOOSE i \in 1..Len(children) :
            /\ children[i].tag = t
            /\ \A j \in 1..(i - 1) : children[j].tag # t
    ELSE 0

\* the merge loop without its test for an empty new value
MergeItemNoSkip(children, item) ==
    IF FindIndex(children, item[1]) # 0
    THEN [children EXCEPT ![FindIndex(children, item[1])].text =
                              IF item[2] = None THEN <<>> ELSE item[2]]
    ELSE Append(children, Elem(item[1], IF item[2] = None THEN <<>> ELSE item[2]))

\* one pass of the merge loop
MergeItem(children, item) ==
    IF IsBlankValue(item[2]) THEN children
    ELSE IF FindIndex(children, item[1]) # 0
         THEN [children EXCEPT ![FindIndex(children, item[1])].text = item[2]]
         ELSE Append(children, Elem(item[1], item[2]))

RECURSIVE MergeItems(_, _, _)
MergeItems(children, md, i) ==
    IF i > Len(md) THEN children
    ELSE MergeItems(MergeItem(children, md[i]), md, i + 1)

\* the flag ignored
MergeModeAlways(overwrite) == TRUE

\* not overwrite_all: the test of both the read of the existing entry and the merge
MergeMode(overwrite) == ~overwrite

\* the branch that decides the final document
FinalXmlRoot(existingOpt, metadata, overwrite) ==
    IF Truthy(existingOpt) /\ MergeMode(overwrite)
    THEN [existingOpt[1] EXCEPT !.children = MergeItems(existingOpt[1].children, metadata, 1)]
    ELSE create_comic_info_xml_element(metadata)

-----------------------------------------------------------------------------
(* The ZIP container *)

Entry(n, d) == [filename |-> n, data |-> d]

Page(id) == [wf |-> FALSE, decl |-> {}, elems |-> <<>>, raw |-> id]

Doc(declared, els) == [wf |-> TRUE, decl |-> declared, elems |-> els, raw |-> "xml"]

Corrupted == [wf |-> FALSE, decl |-> {}, elems |-> <<>>, raw |-> "not xml"]

Zip(es) == [complete |-> TRUE, entries |-> es]

\* zf.namelist()
NameList(file) == [i \in 1..Len(file.entries) |-> file.entries[i].filename]

\* the names compared as they are
IsComicInfoNameExact(name) == name = comic_info_filename

\* name.lower() == comic_info_filename_lower
IsComicInfoName(name) == Lower(name) = comic_info_filename_lower

\* the first name of the list that matches, <<>> for None
FirstMatch(names) ==
    IF \E i \in 1..Len(names) : IsComicInfoName(names[i])
    THEN <<names[CHOOSE i \in 1..Len(names) :
                    /\ IsComicInfoName(names[i])
                    /\ \A j \in 1..(i - 1) : ~IsComicInfoName(names[j])]>>
    ELSE <<>>

\* zf.read(name), zf.open(name): getinfo(name) is NameToInfo[name], the last entry
\* of the central directory with that name
ZipRead(file, name) ==
    file.entries[CHOOSE i \in 1..Len(file.entries) :
                    /\ file.entries[i].filename = name
                    /\ \A j \in (i + 1)..Len(file.entries) : file.entries[j].filename # name].data

\* the copy loop: every entry whose name does not match, with the bytes that
\* zin.read(item.filename) returns
RECURSIVE CopyOthers(_, _)
CopyOthers(file, i) ==
    IF i > Len(file.entries) THEN <<>>
    ELSE IF ~IsComicInfoName(file.entries[i].filename)
         THEN <<Entry(file.entries[i].filename, ZipRead(file, file.entries[i].filename))>>
              \o CopyOthers(file, i + 1)
         ELSE CopyOthers(file, i + 1)

\* the container staged by a tag write
StagedForWrite(file, bytes) ==
    Zip(Append(CopyOthers(file, 1), Entry(comic_info_filename, bytes)))

\* the container staged by an erase
StagedForErase(file) == Zip(CopyOthers(file, 1))

\* a container whose writing stopped after k entries: no central directory
Partial(file, k) == [complete |-> FALSE, entries |-> SubSeq(file.entries, 1, k)]

-----------------------------------------------------------------------------
(* The inspector *)

known_list_tags ==
    {"Writer", "Penciller", "Inker", "Colorist", "Letterer", "CoverArtist", "Editor",
     "Artist", "Genre", "Characters", "Teams", "Locations", "StoryArc"}

TextValue(s) == [isList |-> FALSE, text |-> s, items |-> <<>>]

ListValue(its) == [isList |-> TRUE, text |-> <<>>, items |-> its]

\* what the loop stores for one element with text
InspectedValue(t, rawText) ==
    IF t \in known_list_tags /\ Len(StrippedItems(SplitComma(Strip(rawText), <<>>))) > 1
    THEN ListValue(StrippedItems(SplitComma(Strip(rawText), <<>>)))
    ELSE TextValue(Strip(rawText))

\* the dictionary built from the children of the root: an element without text is
\* skipped, a later element replaces an earlier one with the same tag
InfoDict(children) ==
    LET kept == {i \in 1..Len(children) : Strip(children[i].text) # <<>>}
        last(t) == CHOOSE i \in kept :
                      /\ children[i].tag = t
                      /\ \A j \in kept : children[j].tag = t => j <= i
    IN  [t \in {children[i].tag : i \in kept} |->
            InspectedValue(t, children[last(t)].text)]

NoInfo == [found |-> FALSE, info |-> <<>>]

read_comic_info_from_archive(file) ==
    IF ~file.complete THEN NoInfo
    ELSE IF \A i \in 1..Len(file.entries) : file.entries[i].filename # comic_info_filename
    THEN NoInfo
    ELSE IF ~ZipRead(file, comic_info_filename).wf THEN NoInfo
    ELSE [found |-> TRUE,
          info |-> InfoDict(ParseRoot(ZipRead(file, comic_info_filename)).children)]

-----------------------------------------------------------------------------
(* Numbers in strings, and the cover date *)

Digits == <<"0", "1", "2", "3", "4", "5", "6", "7", "8", "9">>

IsDigit(c) == \E i \in 1..Len(Digits) : Digits[i] = c

DigitVal(c) == (CHOOSE i \in 1..Len(Digits) : Digits[i] = c) - 1

AllDigits(s) == \A i \in 1..Len(s) : IsDigit(s[i])

RECURSIVE ToInt(_)
\* int() of a string of decimal digits
ToInt(s) ==
    IF s = <<>> THEN 0
    ELSE 10 * ToInt(SubSeq(s, 1, Len(s) - 1)) + DigitVal(s[Len(s)])

RECURSIVE ToStr(_)
\* str() of a natural number
ToStr(n) ==
    IF n < 10 THEN <<Digits[n + 1]>>
    ELSE ToStr(n \div 10) \o <<Digits[(n % 10) + 1]>>

\* s.split(' ')[0]
BeforeSpace(s) ==
    LET spaces == {i \in 1..Len(s) : s[i] = " "}
    IN  IF spaces = {} THEN s
        ELSE SubSeq(s, 1, (CHOOSE i \in spaces : \A j \in spaces : i <= j) - 1)

\* the days of a month of the proleptic Gregorian calendar
DaysIn(y, m) ==
    IF m = 2
    THEN (IF y % 4 = 0 /\ (y % 100 # 0 \/ y % 400 = 0) THEN 29 ELSE 28)
    ELSE IF m \in {4, 6, 9, 11} THEN 30 ELSE 31

\* the %Y and %m directives: four digits, and two digits from 01 to 12
YearMonthParse(s) ==
    /\ Len(s) >= 7
    /\ AllDigits(SubSeq(s, 1, 4)) /\ ToInt(SubSeq(s, 1, 4)) >= 1
    /\ s[5] = "-"
    /\ AllDigits(SubSeq(s, 6, 7)) /\ ToInt(SubSeq(s, 6, 7)) \in 1..12

\* datetime.strptime(s, '%Y-%m-%d'): <<>> stands for ValueError
StrptimeYMD(s) ==
    IF /\ Len(s) \in {9, 10}
       /\ YearMonthParse(s)
       /\ s[8] = "-"
       /\ AllDigits(SubSeq(s, 9, Len(s)))
       /\ ToInt(SubSeq(s, 9, Len(s))) \in
              1..DaysIn(ToInt(SubSeq(s, 1, 4)), ToInt(SubSeq(s, 6, 7)))
    THEN <<[year |-> ToInt(SubSeq(s, 1, 4)), month |-> ToInt(SubSeq(s, 6, 7)),
            day |-> ToInt(SubSeq(s, 9, Len(s)))]>>
    ELSE <<>>

\* datetime.strptime(s, '%Y-%m'): <<>> stands for ValueError
StrptimeYM(s) ==
    IF Len(s) = 7 /\ YearMonthParse(s)
    THEN <<[year |-> ToInt(SubSeq(s, 1, 4)), month |-> ToInt(SubSeq(s, 6, 7)), day |-> 1]>>
    ELSE <<>>

\* the fields the cover date gives; a ValueError is caught and leaves none
CoverDateFields(date_str) ==
    IF Len(date_str) >= 10 /\ date_str[5] = "-" /\ date_str[8] = "-"
    THEN LET cover_dt == StrptimeYMD(BeforeSpace(date_str))
         IN  IF cover_dt = <<>> THEN <<>>
             ELSE << <<"Year", ToStr(cover_dt[1].year)>>,
                     <<"Month", ToStr(cover_dt[1].month)>>,
                     <<"Day", ToStr(cover_dt[1].day)>> >>
    ELSE IF Len(date_str) = 7 /\ date_str[5] = "-"
    THEN LET cover_dt == StrptimeYM(date_str)
         IN  IF cover_dt = <<>> THEN <<>>
             ELSE << <<"Year", ToStr(cover_dt[1].year)>>,
                     <<"Month", ToStr(cover_dt[1].month)>> >>
    ELSE IF Len(date_str) = 4 /\ AllDigits(date_str)
    THEN << <<"Year", date_str>> >>
    ELSE <<>>

-----------------------------------------------------------------------------
(* Order, search and joining of strings *)

Uppers == <<"A", "B", "C", "D", "E", "F", "G", "H", "I", "J", "K", "L", "M", "N", "O", "P", "Q", "R", "S", "T", "U", "V", "W", "X", "Y", "Z">>

Lowers == <<"a", "b", "c", "d", "e", "f", "g", "h", "i", "j", "k", "l", "m", "n", "o", "p", "q", "r", "s", "t", "u", "v", "w", "x", "y", "z">>

LowerChar(c) ==
    IF \E i \in 1..Len(Uppers) : Uppers[i] = c
    THEN Lowers[CHOOSE i \in 1..Len(Uppers) : Uppers[i] = c]
    ELSE c

\* str.lower()
LowerStr(s) == [i \in 1..Len(s) |-> LowerChar(s[i])]

\* the characters of the model in the order of their code points; "nbsp" stands for
\* the no-break space
CodePoints ==
    <<"\t", "\n", " ", "\"", "#", "'", "(", ")", ",", "-", ".", "/",
      "0", "1", "2", "3", "4", "5", "6", "7", "8", "9", ":", "<", ">",
      "A", "B", "C", "D", "E", "F", "G", "H", "I", "J", "K", "L", "M",
      "N", "O", "P", "Q", "R", "S", "T", "U", "V", "W", "X", "Y", "Z",
      "a", "b", "c", "d", "e", "f", "g", "h", "i", "j", "k", "l", "m",
      "n", "o", "p", "q", "r", "s", "t", "u", "v", "w", "x", "y", "z", "nbsp">>

Ord(c) == CHOOSE i \in 1..Len(CodePoints) : CodePoints[i] = c

RECURSIVE StrLess(_, _)
\* a < b on strings: by the first character that differs, a prefix first
StrLess(a, b) ==
    IF b = <<>> THEN FALSE
    ELSE IF a = <<>> THEN TRUE
    ELSE IF Head(a) = Head(b) THEN StrLess(Tail(a), Tail(b))
    ELSE Ord(Head(a)) < Ord(Head(b))

RECURSIVE Sorted(_)
\* sorted(list(names_set))
Sorted(names) ==
    IF names = {} THEN <<>>
    ELSE LET first == CHOOSE n \in names : \A m \in names \ {n} : StrLess(n, m)
         IN  <<first>> \o Sorted(names \ {first})

RECURSIVE Join(_, _)
\* sep.join(parts)
Join(sep, parts) ==
    IF parts = <<>> THEN <<>>
    ELSE IF Len(parts) = 1 THEN parts[1]
    ELSE parts[1] \o sep \o Join(sep, Tail(parts))

CommaSpace == <<",", " ">>

\* sub in s
Contains(s, sub) ==
    \E i \in 0..(Len(s) - Len(sub)) : SubSeq(s, i + 1, i + Len(sub)) = sub

RECURSIVE Replace(_, _, _)
\* s.replace(old, new), old not empty
Replace(s, old, new) ==
    IF Len(s) < Len(old) THEN s
    ELSE IF SubSeq(s, 1, Len(old)) = old
         THEN new \o Replace(SubSeq(s, Len(old) + 1, Len(s)), old, new)
         ELSE <<Head(s)>> \o Replace(Tail(s), old, new)

RECURSIVE RemoveTags(_)
\* re.sub(r'<[^>]+>', '', s)
RemoveTags(s) ==
    IF s = <<>> THEN <<>>
    ELSE IF /\ Head(s) = "<"
            /\ \E j \in 3..Len(s) : s[j] = ">" /\ \A k \in 2..(j - 1) : s[k] # ">"
         THEN RemoveTags(SubSeq(s, 1 + (CHOOSE j \in 3..Len(s) :
                                            s[j] = ">" /\ \A k \in 2..(j - 1) : s[k] # ">"),
                                Len(s)))
         ELSE <<Head(s)>> \o RemoveTags(Tail(s))

\* the one key of the entities table that is neither its own value nor the no-break
\* space: the text between the two triple quotes of the table's last line
OddEntity == <<":", " ", "\"", "'", "\"", ",", " ">>

\* utils.strip_html; None and the empty string give the empty string
strip_html(html_string) ==
    IF html_string = None \/ html_string = <<>> THEN <<>>
    ELSE Strip(Replace(Replace(RemoveTags(html_string), <<"nbsp">>, <<" ">>),
                       OddEntity, <<"'">>))

-----------------------------------------------------------------------------
(* The Record Mapper.  A catalog record holds every key the mapper reads: a *)
(* key the response lacks, or gives as null, is None for a string and <<>>  *)
(* for a list; volume is <<>> or <<[name, publisher, count_of_issues,       *)
(* start_year]>>, publisher None or a name, count_of_issues <<>> or <<n>>;  *)
(* a credit is [name, role].                                                *)

\* the truth value of a string or None
NonEmptyStr(s) == s # None /\ s # <<>>

\* info[k] = v
Put(info, k, v) ==
    IF HasKey(info, k)
    THEN [i \in 1..Len(info) |-> IF info[i][1] = k THEN <<k, v>> ELSE info[i]]
    ELSE Append(info, <<k, v>>)

\* info.get(k, default)
GetOr(info, k, default) == IF HasKey(info, k) THEN Get(info, k) ELSE default

RECURSIVE PutAll(_, _)
PutAll(info, fields) ==
    IF fields = <<>> THEN info
    ELSE PutAll(Put(info, fields[1][1], fields[1][2]), Tail(fields))

TitleNumber(cv_issue_data) ==
    LET a == IF NonEmptyStr(cv_issue_data.name)
             THEN Put(<<>>, "Title", cv_issue_data.name) ELSE <<>>
    IN  IF NonEmptyStr(cv_issue_data.issue_number)
        THEN Put(a, "Number", cv_issue_data.issue_number) ELSE a

\* info.get('Notes', '') + f"\nAliases:\n{aliases_text}".strip()
AliasesNote(cv_issue_data, info) ==
    IF NonEmptyStr(cv_issue_data.aliases) /\ strip_html(cv_issue_data.aliases) # <<>>
    THEN Put(info, "Notes",
             GetOr(info, "Notes", <<>>)
                \o Strip(<<"\n", "A", "l", "i", "a", "s", "e", "s", ":", "\n">> \o strip_html(cv_issue_data.aliases)))
    ELSE info

CoverDate(cv_issue_data, info) ==
    IF NonEmptyStr(cv_issue_data.cover_date)
    THEN PutAll(info, CoverDateFields(cv_issue_data.cover_date))
    ELSE info

\* a mapper that prints nothing about the cover date
CoverDateSilent(cv_issue_data) == FALSE

\* the cover date is reported: no known format, or a ValueError of strptime
CoverDateReported(cv_issue_data) ==
    NonEmptyStr(cv_issue_data.cover_date) /\ CoverDateFields(cv_issue_data.cover_date) = <<>>

\* info.get('Notes', '') + f"\nStore Date: {store_date}".strip()
StoreDateNote(cv_issue_data, info) ==
    IF /\ NonEmptyStr(cv_issue_data.store_date)
       /\ cv_issue_data.store_date # cv_issue_data.cover_date
    THEN Put(info, "Notes",
             GetOr(info, "Notes", <<>>)
                \o Strip(<<"\n", "S", "t", "o", "r", "e", " ", "D", "a", "t", "e", ":", " ">> \o cv_issue_data.store_date))
    ELSE info

SummaryField(cv_issue_data, info) ==
    IF NonEmptyStr(cv_issue_data.description)
    THEN Put(info, "Summary", strip_html(cv_issue_data.description))
    ELSE info

\* (current_notes + f"\nDeck (Summary): {deck_text}").strip()
DeckNote(cv_issue_data, info) ==
    IF NonEmptyStr(cv_issue_data.deck) /\ strip_html(cv_issue_data.deck) # <<>>
    THEN Put(info, "Notes",
             Strip(GetOr(info, "Notes", <<>>)
                      \o <<"\n", "D", "e", "c", "k", " ", "(", "S", "u", "m", "m", "a", "r", "y", ")", ":", " ">> \o strip_html(cv_issue_data.deck)))
    ELSE info

WebField(cv_issue_data, info) ==
    IF NonEmptyStr(cv_issue_data.site_detail_url)
    THEN Put(info, "Web", cv_issue_data.site_detail_url)
    ELSE info

\* the volume's start_year becomes Year whatever the issue gave
VolumeFieldsYearAlways(cv_issue_data, info) ==
    IF cv_issue_data.volume = <<>> THEN info
    ELSE LET volume == cv_issue_data.volume[1]
             a == IF NonEmptyStr(volume.name) THEN Put(info, "Series", volume.name) ELSE info
             b == IF NonEmptyStr(volume.publisher)
                  THEN Put(a, "Publisher", volume.publisher) ELSE a
             c == IF volume.count_of_issues # <<>>
                  THEN Put(b, "Count", ToStr(volume.count_of_issues[1])) ELSE b
         IN  IF NonEmptyStr(volume.start_year)
             THEN Put(c, "Year", volume.start_year) ELSE c

\* Series, Publisher, Count, and Year from start_year if the issue gave none
VolumeFields(cv_issue_data, info) ==
    IF cv_issue_data.volume = <<>> THEN info
    ELSE LET volume == cv_issue_data.volume[1]
             a == IF NonEmptyStr(volume.name) THEN Put(info, "Series", volume.name) ELSE info
             b == IF NonEmptyStr(volume.publisher)
                  THEN Put(a, "Publisher", volume.publisher) ELSE a
             c == IF volume.count_of_issues # <<>>
                  THEN Put(b, "Count", ToStr(volume.count_of_issues[1])) ELSE b
         IN  IF NonEmptyStr(volume.start_year) /\ ~HasKey(c, "Year")
             THEN Put(c, "Year", volume.start_year) ELSE c

\* (CV role keyword, ComicInfo tag), in the order of the table
person_roles_map ==
    << <<<<"w", "r", "i", "t", "e", "r">>, "Writer">>, <<<<"p", "e", "n", "c", "i", "l", "e", "r">>, "Penciller">>, <<<<"i", "n", "k", "e", "r">>, "Inker">>,
       <<<<"c", "o", "l", "o", "r", "i", "s", "t">>, "Colorist">>, <<<<"l", "e", "t", "t", "e", "r", "e", "r">>, "Letterer">>,
       <<<<"c", "o", "v", "e", "r">>, "CoverArtist">>, <<<<"a", "r", "t", "i", "s", "t">>, "Artist">>, <<<<"e", "d", "i", "t", "o", "r">>, "Editor">>,
       <<<<"p", "l", "o", "t", "t", "e", "r">>, "Writer">>, <<<<"s", "c", "r", "i", "p", "t", "e", "r">>, "Writer">> >>

generic_art_roles == <<<<"a", "r", "t">>, <<"c", "o", "l", "o", "r", "s">>, <<"l", "e", "t", "t", "e", "r", "s">>, <<"p", "e", "n", "c", "i", "l", "s">>, <<"i", "n", "k", "s">>>>

\* the tags whose assignment keeps a person out of the fallback
FallbackBlockingTags == {"Penciller", "Inker", "Colorist", "CoverArtist"}

\* (person.get('role') or '').lower()
RolesOf(person) == LowerStr(IF person.role = None THEN <<>> ELSE person.role)

\* roles_assigned_for_person, in the order of assignment
AssignedTags(cv_person_roles_str) ==
    LET hits == SelectSeq(person_roles_map, LAMBDA kt : Contains(cv_person_roles_str, kt[1]))
    IN  [i \in 1..Len(hits) |-> hits[i][2]]

\* the fallback adds the person to Artist
ArtistFallback(cv_person_roles_str) ==
    /\ \A i \in 1..Len(AssignedTags(cv_person_roles_str)) :
           AssignedTags(cv_person_roles_str)[i] \notin FallbackBlockingTags
    /\ \E i \in 1..Len(generic_art_roles) :
           Contains(cv_person_roles_str, generic_art_roles[i])

\* temp_credits_by_ci_tag[ci_tag].add(name), the set created when missing
AddName(temp, ci_tag, name) ==
    IF HasKey(temp, ci_tag)
    THEN Put(temp, ci_tag, Get(temp, ci_tag) \cup {name})
    ELSE Append(temp, <<ci_tag, {name}>>)

RECURSIVE AddNames(_, _, _)
AddNames(temp, tags, name) ==
    IF tags = <<>> THEN temp
    ELSE AddNames(AddName(temp, Head(tags), name), Tail(tags), name)

\* one turn of the loop over person_credits
CreditPerson(temp, person) ==
    IF ~NonEmptyStr(person.name) THEN temp
    ELSE LET specific == AddNames(temp, AssignedTags(RolesOf(person)), person.name)
         IN  IF ArtistFallback(RolesOf(person))
             THEN AddName(specific, "Artist", person.name)
             ELSE specific

RECURSIVE CreditPersons(_, _)
CreditPersons(temp, persons) ==
    IF persons = <<>> THEN temp
    ELSE CreditPersons(CreditPerson(temp, Head(persons)), Tail(persons))

\* ", ".join(sorted(list(names_set)))
JoinedNames(names_set) == Join(CommaSpace, Sorted(names_set))

RECURSIVE PutCredits(_, _)
PutCredits(info, temp) ==
    IF temp = <<>> THEN info
    ELSE PutCredits(Put(info, temp[1][1], JoinedNames(temp[1][2])), Tail(temp))

PersonCredits(cv_issue_data, info) ==
    PutCredits(info, CreditPersons(<<>>, cv_issue_data.person_credits))

\* set([item.get('name') for item in items if item.get('name')]); an item is given by
\* its name, None when it has none
NamesOf(items) == {items[i] : i \in {j \in 1..Len(items) : NonEmptyStr(items[j])}}

\* map_generic_credits_list
map_generic_credits_list(items, comic_info_tag, info) ==
    IF NamesOf(items) # {} THEN Put(info, comic_info_tag, JoinedNames(NamesOf(items)))
    ELSE info

OtherCredits(cv_issue_data, info) ==
    map_generic_credits_list(cv_issue_data.story_arc_credits, "StoryArc",
        map_generic_credits_list(cv_issue_data.location_credits, "Locations",
            map_generic_credits_list(cv_issue_data.team_credits, "Teams",
                map_generic_credits_list(cv_issue_data.character_credits, "Characters",
                                         info))))

\* the concepts join the genres info already holds
GenreField(cv_issue_data, info) ==
    LET existing == StrippedItems(SplitComma(GetOr(info, "Genre", <<>>), <<>>))
    IN  IF NamesOf(cv_issue_data.concept_credits) # {}
        THEN Put(info, "Genre",
                 JoinedNames({existing[i] : i \in 1..Len(existing)}
                                \cup NamesOf(cv_issue_data.concept_credits)))
        ELSE info

\* (info.get('Notes', '') + f"\nObjects: {', '.join(object_names)}").strip()
ObjectsNote(cv_issue_data, info) ==
    IF NamesOf(cv_issue_data.object_credits) # {}
    THEN Put(info, "Notes",
             Strip(GetOr(info, "Notes", <<>>)
                      \o <<"\n", "O", "b", "j", "e", "c", "t", "s", ":", " ">> \o JoinedNames(NamesOf(cv_issue_data.object_credits))))
    ELSE info

S_en == <<"e", "n">>

S_Comic == <<"C", "o", "m", "i", "c">>

\* info.setdefault(k, v)
SetDefault(info, k, v) == IF HasKey(info, k) THEN info ELSE Put(info, k, v)

Defaults(info) == SetDefault(SetDefault(info, "LanguageISO", S_en), "Format", S_Comic)

\* the steps of the mapper up to the defaults, in the order of the code
MappedInfo(cv_issue_data) ==
    ObjectsNote(cv_issue_data,
     GenreField(cv_issue_data,
      OtherCredits(cv_issue_data,
       PersonCredits(cv_issue_data,
        VolumeFields(cv_issue_data,
         WebField(cv_issue_data,
          DeckNote(cv_issue_data,
           SummaryField(cv_issue_data,
            StoreDateNote(cv_issue_data,
             CoverDate(cv_issue_data,
              AliasesNote(cv_issue_data,
               TitleNumber(cv_issue_data))))))))))))

\* {k: v for k, v in info.items() if v is not None and str(v).strip() != ""}
Filtered(info) == SelectSeq(info, LAMBDA kv : kv[2] # None /\ Strip(kv[2]) # <<>>)

\* the mapper without its two defaults
map_without_defaults(cv_issue_data) == Filtered(MappedInfo(cv_issue_data))

map_cv_to_comicinfo_dict(cv_issue_data) == Filtered(Defaults(MappedInfo(cv_issue_data)))

S_Watchmen1 == <<"W", "a", "t", "c", "h", "m", "e", "n", " ", "#", "1">>

S_Watchmen == <<"W", "a", "t", "c", "h", "m", "e", "n">>

S_DC == <<"D", "C", " ", "C", "o", "m", "i", "c", "s">>

S_1 == <<"1">>

S_1986 == <<"1", "9", "8", "6">>

Volume(name, publisher, count, start_year) ==
    <<[name |-> name, publisher |-> publisher, count_of_issues |-> count,
       start_year |-> start_year]>>

\* a record of the catalog with every key the mapper reads
CvFull(name, number, date, volume, aliases, store_date, description, deck, url,
       persons, characters, teams, locations, arcs, concepts, objects) ==
    [name |-> name, issue_number |-> number, cover_date |-> date, volume |-> volume,
     aliases |-> aliases, store_date |-> store_date, description |-> description,
     deck |-> deck, site_detail_url |-> url, person_credits |-> persons,
     character_credits |-> characters, team_credits |-> teams,
     location_credits |-> locations, story_arc_credits |-> arcs,
     concept_credits |-> concepts, object_credits |-> objects]

\* a record with the four core keys only
CvIssue(name, number, date, volume) ==
    CvFull(name, number, date, volume, None, None, None, None, None,
           <<>>, <<>>, <<>>, <<>>, <<>>, <<>>, <<>>)

WatchmenVolume == Volume(S_Watchmen, S_DC, <<>>, S_1986)

WatchmenRecord == CvIssue(S_Watchmen1, S_1, <<"1", "9", "8", "6", "-", "0", "9", "-", "0", "1">>, WatchmenVolume)

\* the records the catalog may answer with
CvRecords ==
    {WatchmenRecord,
     CvIssue(S_Watchmen1, S_1, <<"1", "9", "8", "6", "-", "0", "9", "-", "0", "1", " ", "0", "0", ":", "0", "0", ":", "0", "0">>, WatchmenVolume),
     CvIssue(S_Watchmen1, S_1, <<"1", "9", "8", "7", "-", "0", "2">>, Volume(S_Watchmen, None, <<12>>, S_1986)),
     CvIssue(None, S_1, <<"1", "9", "8", "7", "-", "0", "2", "-", "3", "0">>, WatchmenVolume),
     CvIssue(S_blank, None, <<"S", "e", "p", "t", " ", "1", "9", "8", "6">>, <<>>),
     CvIssue(S_empty, None, None, <<>>)}

-----------------------------------------------------------------------------
(* File names.  The Filename Deriver is the one of the specification's       *)
(* section 4.2: the sources hold no function that derives a name.            *)

\* str.endswith(suffix)
EndsWith(s, suffix) ==
    /\ Len(s) >= Len(suffix)
    /\ SubSeq(s, Len(s) - Len(suffix) + 1, Len(s)) = suffix

IllegalInNames == {"/", "\\", ":", "*", "?", "<", ">", "|"}

Sanitize(s) == Strip(SelectSeq(s, LAMBDA c : c \notin IllegalInNames))

\* a whole number is padded with zeros to three digits
NumberPart(n) ==
    IF AllDigits(n)
    THEN (IF Len(n) = 1 THEN <<"0", "0">> ELSE IF Len(n) = 2 THEN <<"0">> ELSE <<>>) \o n
    ELSE Sanitize(n)

Present(record, k) == HasKey(record, k) /\ ~IsBlankValue(Get(record, k))

\* the title restates the series or the number
RedundantTitle(record) ==
    \/ /\ Present(record, "Series")
       /\ LowerStr(Get(record, "Title")) = LowerStr(Get(record, "Series"))
    \/ /\ Present(record, "Number")
       /\ LowerStr(Get(record, "Title")) \in
              {LowerStr(<<"#">> \o Get(record, "Number")),
               LowerStr(<<"I", "s", "s", "u", "e", " ", "#">> \o Get(record, "Number"))}

RECURSIVE JoinWithSpace(_)
JoinWithSpace(parts) ==
    IF Len(parts) = 1 THEN parts[1]
    ELSE parts[1] \o <<" ">> \o JoinWithSpace(Tail(parts))

\* <<>> stands for "no suggestion"
deriveFilename(record, originalExtension) ==
    LET parts ==
            (IF Present(record, "Series") THEN <<Sanitize(Get(record, "Series"))>> ELSE <<>>)
            \o (IF Present(record, "Volume")
                THEN <<<<"V">> \o Sanitize(Get(record, "Volume"))>> ELSE <<>>)
            \o (IF Present(record, "Number")
                THEN <<<<"#">> \o NumberPart(Strip(Get(record, "Number")))>> ELSE <<>>)
            \o (IF Present(record, "Year")
                THEN <<<<"(">> \o Sanitize(Get(record, "Year")) \o <<")">>>> ELSE <<>>)
            \o (IF Present(record, "Title") /\ ~RedundantTitle(record)
                THEN <<<<"-", " ">> \o Sanitize(Get(record, "Title"))>> ELSE <<>>)
    IN  IF parts = <<>> THEN <<>> ELSE JoinWithSpace(parts) \o originalExtension

S_cbz == <<".", "c", "b", "z">>

BookCbz == <<"B", "o", "o", "k", ".", "C", "B", "Z">>

BookZip == <<"b", "o", "o", "k", ".", "z", "i", "p">>

MissingCbz == <<"n", "o", "n", "e", ".", "c", "b", "z">>

WatchmenCbz == <<"W", "a", "t", "c", "h", "m", "e", "n", " ", "#", "0", "0", "1", " ", "(", "1", "9", "8", "6", ")", " ", "-", " ", "W", "a", "t", "c", "h", "m", "e", "n", " ", "#", "1", ".", "c", "b", "z">>

WatchmenLowerCbz == <<"w", "a", "t", "c", "h", "m", "e", "n", " ", "#", "0", "0", "1", " ", "(", "1", "9", "8", "6", ")", " ", "-", " ", "w", "a", "t", "c", "h", "m", "e", "n", " ", "#", "1", ".", "c", "b", "z">>

\* os.path.isfile(path)
IsFile(w, name, path) == path = name \/ path \in w.otherPaths

\* the test both handlers make of the path
ValidPathAlways(w, name, path) == TRUE

ValidPath(w, name, path) == IsFile(w, name, path) /\ EndsWith(LowerStr(path), S_cbz)

-----------------------------------------------------------------------------
(* Requests and their environment *)

\* a value of a JSON object: a string, a number or null
JsonStr(s) == [t |-> "str", s |-> s, n |-> 0]

JsonNum(n) == [t |-> "num", s |-> <<>>, n |-> n]

JsonNull == [t |-> "null", s |-> <<>>, n |-> 0]

\* {k: str(v) if v is not None else None for k, v in loaded_data.items()}
Coerce(loaded_data) ==
    [i \in 1..Len(loaded_data) |->
        <<loaded_data[i][1],
          IF loaded_data[i][2].t = "null" THEN None
          ELSE IF loaded_data[i][2].t = "num" THEN ToStr(loaded_data[i][2].n)
          ELSE loaded_data[i][2].s>>]

\* the local metadata file: absent, not JSON, JSON but no object, or an object
MetadataFile(state, loaded) == [state |-> state, loaded |-> loaded]

MetadataFiles ==
    {MetadataFile("missing", <<>>), MetadataFile("invalid_json", <<>>),
     MetadataFile("not_object", <<>>),
     MetadataFile("object", <<>>),
     MetadataFile("object", << <<"Title", JsonStr(S_empty)>>, <<"Zed", JsonNull>> >>),
     MetadataFile("object", << <<"Title", JsonStr(S_x)>>, <<"Year", JsonNum(1986)>> >>)}

\* the answer of the catalog: None, or a response and its 'results'
Catalog(answers, results) == [answers |-> answers, results |-> results]

Catalogs ==
    {Catalog(FALSE, <<>>), Catalog(TRUE, <<>>)} \cup {Catalog(TRUE, <<r>>) : r \in CvRecords}

World(catalog, file, others) ==
    [catalog |-> catalog, metadataFile |-> file, otherPaths |-> others]

Worlds ==
    {World(c, f, o) :
        c \in Catalogs,
        f \in {MetadataFile("object", << <<"Title", JsonStr(S_x)>>, <<"Year", JsonNum(1986)>> >>)},
        o \in {{BookZip}, {BookZip, WatchmenCbz}}}
    \cup {World(Catalog(TRUE, <<WatchmenRecord>>), f, {BookZip}) : f \in MetadataFiles}

AllAttributes ==
    {"cbz_file_path", "check", "erase", "issue_id", "from_file", "overwrite_all", "rename"}

Request(origin, attrs, path, check, erase, source, overwrite, rename) ==
    [origin |-> origin, attrs |-> attrs, cbz_file_path |-> path, check |-> check,
     erase |-> erase, issue_id |-> source = "issue_id", from_file |-> source = "from_file",
     overwrite_all |-> overwrite, rename |-> rename]

NoRequest == Request("none", {}, <<>>, FALSE, FALSE, "none", FALSE, FALSE)

Sources == {"none", "issue_id", "from_file"}

PathsAsked(name) == {name, MissingCbz, BookZip}

\* the namespaces show_tagging_menu builds: a tag by issue id, and an erase
MenuRequests(name) ==
    {Request("menu", AllAttributes, name, FALSE, FALSE, "issue_id", o, r) :
        o \in BOOLEAN, r \in BOOLEAN}
    \cup {Request("menu", {"erase", "cbz_file_path"}, name, FALSE, TRUE, "none", FALSE, FALSE)}

\* a caller that passes every attribute; the flags of a tag vary only on a tag
CallerRequests(name) ==
    {a \in {Request("caller", AllAttributes, p, c, e, s, o, r) :
                p \in PathsAsked(name), c \in BOOLEAN, e \in BOOLEAN, s \in Sources,
                o \in BOOLEAN, r \in BOOLEAN} :
        (a.check \/ a.erase \/ ~(a.issue_id \/ a.from_file)) => (~a.overwrite_all /\ ~a.rename)}

\* what argparse builds for the tag subcommand: no check, no rename
CliRequests(name) ==
    {a \in {Request("cli", AllAttributes \ {"check", "rename"}, p, FALSE, e, s, o, FALSE) :
                p \in PathsAsked(name), e \in BOOLEAN, s \in Sources, o \in BOOLEAN} :
        (a.erase \/ ~(a.issue_id \/ a.from_file)) => ~a.overwrite_all}

NotCalled == [kind |-> "none", success |-> FALSE, path |-> <<>>]

Pending == [kind |-> "pending", success |-> FALSE, path |-> <<>>]

ReturnedNone == [kind |-> "None", success |-> FALSE, path |-> <<>>]

Raised == [kind |-> "AttributeError", success |-> FALSE, path |-> <<>>]

-----------------------------------------------------------------------------
(* The initial states: an archive on disk, a record to write, no operation yet *)

PageEntries == {Entry("a.jpg", Page("p1")), Entry("a.jpg", Page("p2")), Entry("b.jpg", Page("p1"))}

ExistingDoc == Doc({}, <<Elem("Title", S_q)>>)

MetaEntries ==
    {Entry("ComicInfo.xml", ExistingDoc),
     Entry("comicinfo.xml", Doc({"xmlns:xsi", "xmlns:xsd"}, <<Elem("Zed", S_r)>>))}

RECURSIVE SeqsUpTo(_, _)
SeqsUpTo(S, n) ==
    IF n = 0 THEN {<<>>}
    ELSE LET shorter == SeqsUpTo(S, n - 1)
         IN  shorter \cup {Append(q, x) : q \in shorter, x \in S}

\* archives of any entry sequence, also one that is no ZIP container, with a plain record
StoreArchives ==
    {Zip(es) : es \in SeqsUpTo(PageEntries \cup MetaEntries, MaxEntries)}
        \cup {[complete |-> FALSE, entries |-> <<>>]}

StoreRecords == {<< <<"Zed", S_x>> >>, << <<"Title", S_xy>>, <<"Zed", None>> >>}

\* archives with at most one metadata entry, with every record of up to MaxFields fields
FieldKeys == {"Title", "Writer", "Zed"}

FieldValues == {None, S_empty, S_blank, S_x, S_xy}

DistinctKeys(md) == \A i, j \in 1..Len(md) : md[i][1] = md[j][1] => i = j

FieldRecords ==
    {md \in SeqsUpTo(FieldKeys \X FieldValues, MaxFields) : DistinctKeys(md)}

FieldArchives ==
    {Zip(<<Entry("a.jpg", Page("p1"))>>),
     Zip(<<Entry("a.jpg", Page("p1")), Entry("ComicInfo.xml", ExistingDoc)>>),
     Zip(<<Entry("comicinfo.xml", Doc({}, <<Elem("Zed", S_q), Elem("Writer", S_r), Elem("Zed", S_r)>>)),
           Entry("a.jpg", Page("p1"))>>),
     Zip(<<Entry("ComicInfo.xml", Doc({}, <<>>)), Entry("a.jpg", Page("p1"))>>),
     Zip(<<Entry("a.jpg", Page("p1")), Entry("ComicInfo.xml", Corrupted)>>)}

NoOperation == [op |-> "none", overwrite_all |-> FALSE, result |-> "none", written |-> <<>>,
                hadEntry |-> FALSE]

\* no operation of the store has begun
StoreIdle ==
    /\ tempFile = <<>>
    /\ temp_fd = FALSE
    /\ pc = "idle"
    /\ op = "none"
    /\ overwrite_all = FALSE
    /\ existing_comic_info_root = <<>>
    /\ xml_string_bytes = <<>>
    /\ result = "none"
    /\ failedAt = "none"
    /\ orig = archive
    /\ staged = <<>>
    /\ tempsCreated = 0
    /\ swapStarted = FALSE
    /\ prev = NoOperation
    /\ inspected = NoInfo

\* no handler has been called
NoDispatch ==
    /\ args = NoRequest
    /\ world = World(Catalog(FALSE, <<>>), MetadataFile("missing", <<>>), {})
    /\ returned = NotCalled
    /\ exit_status = -1
    /\ netCalls = 0
    /\ netInFlight = FALSE
    /\ mapperCalls = 0
    /\ archivePath = BookCbz

\* the mapper is not studied alone
NoMapping ==
    /\ cvInput = CvIssue(None, None, None, <<>>)
    /\ mapOutput = <<>>
    /\ reported = FALSE
    /\ fallback_taken = <<>>
    /\ mapPc = "idle"

\* a response of the catalog's server, or the exception requests.get raised
Response(status, raised, body, error, results) ==
    [status |-> status, raised |-> raised, body |-> body, error |-> error,
     results |-> results]

NoResponse == Response(0, "none", "none", "", 0)

\* the function has not returned
NotReturned == [returned |-> FALSE, data |-> <<>>]

\* return None
ReturnNone == [returned |-> TRUE, data |-> <<>>]

\* return data
ReturnData(data) == [returned |-> TRUE, data |-> <<data>>]

\* make_comicvine_api_request is not studied alone
NoFetch ==
    /\ fetchUrl = "none"
    /\ retries = 0
    /\ requestsSent = 0
    /\ lastResponse = NoResponse
    /\ fetchResult = NotReturned
    /\ fetchPc = "idle"

TranslateArgs(text, target, max_retries) ==
    [text_to_translate |-> text, target_language_code |-> target,
     max_retries |-> max_retries]

\* what requests.post gave: a body with its content, a body of another shape, an exception
Reply(kind, content) == [kind |-> kind, content |-> content]

NoReply == Reply("none", <<>>)

\* translate_text is not studied alone
NoTranslation ==
    /\ trArgs = TranslateArgs(None, "pl", 1)
    /\ apiKeySet = FALSE
    /\ translation_cache = {}
    /\ cacheAtCall = {}
    /\ attempt = 0
    /\ postsSent = 0
    /\ lastReply = NoReply
    /\ trResult = NotReturned
    /\ trPc = "idle"

\* handle_check is not studied alone
NoCheck ==
    /\ files_to_check_q = <<>>
    /\ shelf = <<>>
    /\ shelfAtCall = <<>>
    /\ unique_files_to_check = <<>>
    /\ checkIndex = 1
    /\ displayed = <<>>
    /\ found_tags_count = 0
    /\ summary = <<>>
    /\ checkPc = "idle"

\* no function is studied alone
NoSide == NoMapping /\ NoFetch /\ NoTranslation /\ NoCheck

Init ==
    /\ \/ /\ archive \in StoreArchives
          /\ comic_info_metadata \in StoreRecords
          /\ sameFs \in BOOLEAN
       \/ /\ archive \in FieldArchives
          /\ comic_info_metadata \in FieldRecords
          /\ sameFs = TRUE
    /\ StoreIdle
    /\ NoDispatch
    /\ NoSide

-----------------------------------------------------------------------------
(* Requests *)

HasEntry(file) ==
    \E i \in 1..Len(file.entries) : IsComicInfoName(file.entries[i].filename)

\* the operation that just ended, as the next one remembers it
Ended ==
    [op |-> op, overwrite_all |-> overwrite_all, result |-> result,
     written |-> xml_string_bytes, hadEntry |-> HasEntry(orig)]

\* a new call: the locals of the store are fresh
BeginCall(kind, overwrite, at) ==
    /\ pc' = at
    /\ op' = kind
    /\ overwrite_all' = overwrite
    /\ existing_comic_info_root' = <<>>
    /\ xml_string_bytes' = <<>>
    /\ result' = "none"
    /\ failedAt' = "none"
    /\ orig' = archive
    /\ staged' = <<>>
    /\ tempsCreated' = 0
    /\ swapStarted' = FALSE
    /\ prev' = Ended
    /\ UNCHANGED <<archive, tempFile, temp_fd, sameFs>>

\* a request made of the store directly, one after another
Enter(kind, overwrite, at) ==
    /\ pc \in {"idle", "done"}
    /\ BeginCall(kind, overwrite, at)
    /\ UNCHANGED <<comic_info_metadata, dispatchVars, sideVars>>

\* _perform_actual_tagging: no record, no write; else write_comic_info_to_cbz, which
\* reads the existing entry only when overwrite_all is false
TagRequest ==
    \E overwrite \in BOOLEAN :
        /\ Enter("tag", overwrite,
                 IF comic_info_metadata = <<>> THEN "done"
                 ELSE IF MergeMode(overwrite) THEN "w_read" ELSE "w_build")
        /\ inspected' = NoInfo

\* handle_tagging_dispatch with args.erase: erase_comic_info_from_cbz
EraseRequest ==
    /\ Enter("erase", FALSE, "e_check")
    /\ inspected' = NoInfo

\* handle_tagging_dispatch with args.check: the inspector reads the archive
CheckRequest ==
    /\ Enter("check", FALSE, "done")
    /\ inspected' = read_comic_info_from_archive(archive)

-----------------------------------------------------------------------------
(* The steps of the store *)

\* an exception, or a return of False, without the finally block
FailWithoutFinally(step) ==
    /\ result' = "False"
    /\ failedAt' = step
    /\ pc' = "done"
    /\ temp_fd' = temp_fd
    /\ tempFile' = tempFile

\* an exception, or a return of False, and the finally block: the descriptor is
\* closed if open, the temporary file removed if temp_zip_path is set and exists
Fail(step) ==
    /\ result' = "False"
    /\ failedAt' = step
    /\ pc' = "done"
    /\ temp_fd' = FALSE
    /\ tempFile' = <<>>

\* the first with-block with ET.ParseError left uncaught: it reaches the outer except
WriteReadExistingParseFatal ==
    /\ pc = "w_read"
    /\ \/ /\ ~archive.complete
          /\ Fail("read")
          /\ UNCHANGED existing_comic_info_root
       \/ /\ archive.complete
          /\ FirstMatch(NameList(archive)) = <<>>
          /\ pc' = "w_build"
          /\ UNCHANGED <<existing_comic_info_root, result, failedAt, temp_fd, tempFile>>
       \/ /\ archive.complete
          /\ FirstMatch(NameList(archive)) # <<>>
          /\ ZipRead(archive, FirstMatch(NameList(archive))[1]).wf
          /\ existing_comic_info_root' =
                <<ParseRoot(ZipRead(archive, FirstMatch(NameList(archive))[1]))>>
          /\ pc' = "w_build"
          /\ UNCHANGED <<result, failedAt, temp_fd, tempFile>>
       \/ /\ archive.complete
          /\ FirstMatch(NameList(archive)) # <<>>
          /\ ~ZipRead(archive, FirstMatch(NameList(archive))[1]).wf
          /\ Fail("parse")
          /\ UNCHANGED existing_comic_info_root
    /\ UNCHANGED <<archive, sameFs, op, overwrite_all, comic_info_metadata, xml_string_bytes,
                   orig, staged, tempsCreated, swapStarted, prev, inspected, dispatchVars, sideVars>>

\* the first with-block of write_comic_info_to_cbz
WriteReadExisting ==
    /\ pc = "w_read"
    /\ \/ /\ ~archive.complete
          /\ Fail("read")
          /\ UNCHANGED existing_comic_info_root
       \/ /\ archive.complete
          /\ FirstMatch(NameList(archive)) = <<>>
          /\ pc' = "w_build"
          /\ UNCHANGED <<existing_comic_info_root, result, failedAt, temp_fd, tempFile>>
       \/ /\ archive.complete
          /\ FirstMatch(NameList(archive)) # <<>>
          /\ \/ /\ existing_comic_info_root' =
                      IF ZipRead(archive, FirstMatch(NameList(archive))[1]).wf
                      THEN <<ParseRoot(ZipRead(archive, FirstMatch(NameList(archive))[1]))>>
                      ELSE <<>>
                /\ pc' = "w_build"
                /\ UNCHANGED <<result, failedAt, temp_fd, tempFile>>
             \/ \* the entry cannot be read: except Exception, return False
                /\ Fail("read")
                /\ UNCHANGED existing_comic_info_root
    /\ UNCHANGED <<archive, sameFs, op, overwrite_all, comic_info_metadata, xml_string_bytes,
                   orig, staged, tempsCreated, swapStarted, prev, inspected, dispatchVars, sideVars>>

\* merge or build, indent, serialize
WriteBuildXml ==
    /\ pc = "w_build"
    /\ xml_string_bytes' =
          <<tostring(FinalXmlRoot(existing_comic_info_root, comic_info_metadata, overwrite_all))>>
    /\ pc' = "w_mkstemp"
    /\ UNCHANGED <<archive, tempFile, temp_fd, sameFs, op, overwrite_all, comic_info_metadata,
                   existing_comic_info_root, result, failedAt, orig, staged, tempsCreated,
                   swapStarted, prev, inspected, dispatchVars, sideVars>>

\* tempfile.mkstemp: an empty file and its open descriptor, or an OSError
Mkstemp(here, next) ==
    /\ pc = here
    /\ \/ /\ tempFile' = <<[complete |-> FALSE, entries |-> <<>>]>>
          /\ temp_fd' = TRUE
          /\ tempsCreated' = tempsCreated + 1
          /\ pc' = next
          /\ UNCHANGED <<result, failedAt>>
       \/ /\ Fail("mkstemp")
          /\ UNCHANGED tempsCreated
    /\ UNCHANGED <<archive, sameFs, op, overwrite_all, comic_info_metadata,
                   existing_comic_info_root, xml_string_bytes, orig, staged, swapStarted,
                   prev, inspected, dispatchVars, sideVars>>

\* the new container written over the archive itself instead of a temporary file
StageInPlace(here, next, container) ==
    /\ pc = here
    /\ \/ /\ archive.complete
          /\ archive' = container
          /\ tempFile' = <<container>>
          /\ staged' = <<container>>
          /\ pc' = next
          /\ UNCHANGED <<result, failedAt, temp_fd>>
       \/ /\ \E k \in 0..Len(container.entries) : archive' = Partial(container, k)
          /\ Fail("stage")
          /\ UNCHANGED staged
    /\ UNCHANGED <<sameFs, op, overwrite_all, comic_info_metadata,
                   existing_comic_info_root, xml_string_bytes, orig, tempsCreated, swapStarted,
                   prev, inspected, dispatchVars, sideVars>>

\* the two nested with-blocks: the source is opened and copied into the temporary
\* container; opening, reading an entry or writing may raise
Stage(here, next, container) ==
    /\ pc = here
    /\ \/ /\ archive.complete
          /\ tempFile' = <<container>>
          /\ staged' = <<container>>
          /\ pc' = next
          /\ UNCHANGED <<result, failedAt, temp_fd>>
       \/ /\ Fail("stage")
          /\ UNCHANGED staged
    /\ UNCHANGED <<archive, sameFs, op, overwrite_all, comic_info_metadata,
                   existing_comic_info_root, xml_string_bytes, orig, tempsCreated, swapStarted,
                   prev, inspected, dispatchVars, sideVars>>

\* os.close(temp_fd); shutil.move(temp_zip_path, cbz_path): os.rename where the
\* temporary directory is on the archive's filesystem; elsewhere os.rename raises and
\* shutil.move copies, which begins by opening the archive path for writing
Swap(here, copying) ==
    /\ pc = here
    /\ swapStarted' = TRUE
    /\ \/ /\ sameFs
          /\ archive' = tempFile[1]
          /\ tempFile' = <<>>
          /\ temp_fd' = FALSE
          /\ result' = "True"
          /\ pc' = "done"
          /\ UNCHANGED failedAt
       \/ /\ ~sameFs
          /\ archive' = Partial(tempFile[1], 0)
          /\ temp_fd' = FALSE
          /\ pc' = copying
          /\ UNCHANGED <<tempFile, result, failedAt>>
       \/ /\ Fail("swap")
          /\ UNCHANGED archive
    /\ UNCHANGED <<sameFs, op, overwrite_all, comic_info_metadata, existing_comic_info_root,
                   xml_string_bytes, orig, staged, tempsCreated, prev, inspected, dispatchVars, sideVars>>

\* the copy of shutil.move and the unlink of the source; a write may raise after any
\* number of entries
CopyAcross(here) ==
    /\ pc = here
    /\ \/ /\ archive' = tempFile[1]
          /\ tempFile' = <<>>
          /\ result' = "True"
          /\ pc' = "done"
          /\ UNCHANGED <<failedAt, temp_fd>>
       \/ \E k \in 0..Len(tempFile[1].entries) :
             /\ archive' = Partial(tempFile[1], k)
             /\ Fail("swap")
    /\ UNCHANGED <<sameFs, op, overwrite_all, comic_info_metadata, existing_comic_info_root,
                   xml_string_bytes, orig, staged, tempsCreated, swapStarted, prev, inspected, dispatchVars, sideVars>>

WriteMkstemp == Mkstemp("w_mkstemp", "w_stage")

WriteStage == Stage("w_stage", "w_swap", StagedForWrite(archive, xml_string_bytes[1]))

WriteSwap == Swap("w_swap", "w_copy")

WriteCopyAcross == CopyAcross("w_copy")

\* xml_existed taken to be true
XmlExistedAlways(names) == TRUE

\* xml_existed
XmlExisted(names) == \E i \in 1..Len(names) : IsComicInfoName(names[i])

\* the first try block of erase_comic_info_from_cbz
EraseCheck ==
    /\ pc = "e_check"
    /\ \/ /\ ~archive.complete
          /\ Fail("read")
       \/ /\ archive.complete
          /\ ~XmlExisted(NameList(archive))
          /\ result' = "True"
          /\ pc' = "done"
          /\ UNCHANGED <<failedAt, temp_fd, tempFile>>
       \/ /\ archive.complete
          /\ XmlExisted(NameList(archive))
          /\ pc' = "e_mkstemp"
          /\ UNCHANGED <<result, failedAt, temp_fd, tempFile>>
    /\ UNCHANGED <<archive, sameFs, op, overwrite_all, comic_info_metadata,
                   existing_comic_info_root, xml_string_bytes, orig, staged, tempsCreated,
                   swapStarted, prev, inspected, dispatchVars, sideVars>>

EraseMkstemp == Mkstemp("e_mkstemp", "e_stage")

EraseStage == Stage("e_stage", "e_swap", StagedForErase(archive))

EraseSwap == Swap("e_swap", "e_copy")

EraseCopyAcross == CopyAcross("e_copy")

Next ==
    \/ TagRequest
    \/ EraseRequest
    \/ CheckRequest
    \/ WriteReadExisting
    \/ WriteBuildXml
    \/ WriteMkstemp
    \/ WriteStage
    \/ WriteSwap
    \/ WriteCopyAcross
    \/ EraseCheck
    \/ EraseMkstemp
    \/ EraseStage
    \/ EraseSwap
    \/ EraseCopyAcross

Spec == Init /\ [][Next]_vars

-----------------------------------------------------------------------------
(* The request handlers: one request is handled from any state of the       *)
(* archive and of its environment                                           *)

DispatchArchives == FieldArchives \cup {[complete |-> FALSE, entries |-> <<>>]}

DispatchInit ==
    /\ archive \in DispatchArchives
    /\ world \in Worlds
    /\ archivePath \in {BookCbz, WatchmenLowerCbz}
    /\ sameFs \in BOOLEAN
    /\ comic_info_metadata = <<>>
    /\ StoreIdle
    /\ args = NoRequest
    /\ returned = NotCalled
    /\ exit_status = -1
    /\ netCalls = 0
    /\ netInFlight = FALSE
    /\ mapperCalls = 0
    /\ NoSide

\* a return of the handler before any call of the store
EarlyReturn(kind, md, ret) ==
    /\ BeginCall(kind, FALSE, "done")
    /\ comic_info_metadata' = md
    /\ returned' = ret
    /\ UNCHANGED <<inspected, netCalls, netInFlight, mapperCalls>>

\* the call of write_comic_info_to_cbz with the record obtained
CallWrite(md, overwrite) ==
    /\ BeginCall("tag", overwrite, IF MergeMode(overwrite) THEN "w_read" ELSE "w_build")
    /\ comic_info_metadata' = md
    /\ returned' = Pending
    /\ inspected' = NoInfo
    /\ UNCHANGED <<netCalls, netInFlight, mapperCalls>>

\* the call of erase_comic_info_from_cbz
CallErase ==
    /\ BeginCall("erase", FALSE, "e_check")
    /\ returned' = Pending
    /\ inspected' = NoInfo
    /\ UNCHANGED <<comic_info_metadata, netCalls, netInFlight, mapperCalls>>

\* the record is obtained: the request to the catalog is sent, or the file is loaded
\* and the store called
ObtainRecord(a) ==
    \/ /\ a.issue_id
       /\ BeginCall("tag", a.overwrite_all, "fetch")
       /\ netCalls' = netCalls + 1
       /\ netInFlight' = TRUE
       /\ returned' = Pending
       /\ inspected' = NoInfo
       /\ UNCHANGED <<comic_info_metadata, mapperCalls>>
    \/ /\ ~a.issue_id /\ a.from_file
       /\ world.metadataFile.state # "object"
       /\ EarlyReturn("tag", <<>>, ReturnedNone)
    \/ /\ ~a.issue_id /\ a.from_file
       /\ world.metadataFile.state = "object"
       /\ Coerce(world.metadataFile.loaded) = <<>>
       /\ EarlyReturn("tag", <<>>, ReturnedNone)
    \/ /\ ~a.issue_id /\ a.from_file
       /\ world.metadataFile.state = "object"
       /\ Coerce(world.metadataFile.loaded) # <<>>
       /\ CallWrite(Coerce(world.metadataFile.loaded), a.overwrite_all)

\* the store is called with the record while the request still awaits its end
FetchResponseInStore ==
    /\ pc = "fetch"
    /\ world.catalog.answers /\ world.catalog.results # <<>>
    /\ mapperCalls' = mapperCalls + 1
    /\ comic_info_metadata' = map_cv_to_comicinfo_dict(world.catalog.results[1])
    /\ pc' = IF MergeMode(overwrite_all) THEN "w_read" ELSE "w_build"
    /\ UNCHANGED <<sideVars, archive, tempFile, temp_fd, sameFs, op, overwrite_all,
                   existing_comic_info_root, xml_string_bytes, result, failedAt, orig, staged,
                   tempsCreated, swapStarted, prev, inspected, args, world, exit_status,
                   netCalls, netInFlight, archivePath, returned>>

\* make_comicvine_api_request returns: None or a response without results ends the
\* request, a record is mapped and written
FetchResponse ==
    /\ pc = "fetch"
    /\ netInFlight' = FALSE
    /\ \/ /\ ~world.catalog.answers \/ world.catalog.results = <<>>
          /\ pc' = "done"
          /\ returned' = ReturnedNone
          /\ UNCHANGED <<comic_info_metadata, mapperCalls>>
       \/ /\ world.catalog.answers /\ world.catalog.results # <<>>
          /\ mapperCalls' = mapperCalls + 1
          /\ comic_info_metadata' = map_cv_to_comicinfo_dict(world.catalog.results[1])
          /\ IF map_cv_to_comicinfo_dict(world.catalog.results[1]) = <<>>
             THEN pc' = "done" /\ returned' = ReturnedNone
             ELSE /\ pc' = IF MergeMode(overwrite_all) THEN "w_read" ELSE "w_build"
                  /\ UNCHANGED returned
    /\ UNCHANGED <<sideVars, archive, tempFile, temp_fd, sameFs, op, overwrite_all,
                   existing_comic_info_root, xml_string_bytes, result, failedAt, orig, staged,
                   tempsCreated, swapStarted, prev, inspected, args, world, exit_status,
                   netCalls, archivePath>>

\* the handler reads an attribute that its namespace lacks
RaisesAttributeError(a) ==
    \/ "check" \notin a.attrs
    \/ ~a.check /\ "erase" \notin a.attrs
    \/ ~a.check /\ "issue_id" \notin a.attrs
    \/ ~a.check /\ ~a.issue_id /\ "from_file" \notin a.attrs
    \/ ~a.check /\ ~a.erase /\ a.issue_id /\ "overwrite_all" \notin a.attrs

\* handle_tagging_dispatch: it returns None on every path
HandleTaggingDispatch ==
    /\ pc = "idle" /\ returned = NotCalled
    /\ \E a \in MenuRequests(archivePath) \cup CallerRequests(archivePath) :
          /\ args' = a
          /\ \/ /\ ~ValidPath(world, archivePath, a.cbz_file_path)
                /\ EarlyReturn("none", <<>>, ReturnedNone)
             \/ /\ ValidPath(world, archivePath, a.cbz_file_path)
                /\ RaisesAttributeError(a)
                /\ EarlyReturn("none", <<>>, Raised)
             \/ /\ ValidPath(world, archivePath, a.cbz_file_path)
                /\ ~RaisesAttributeError(a)
                /\ \/ /\ a.check
                      /\ BeginCall("check", FALSE, "done")
                      /\ inspected' = read_comic_info_from_archive(archive)
                      /\ returned' = ReturnedNone
                      /\ UNCHANGED <<comic_info_metadata, netCalls, netInFlight, mapperCalls>>
                   \/ /\ ~a.check /\ a.erase
                      /\ CallErase
                   \/ /\ ~a.check /\ ~a.erase /\ (a.issue_id \/ a.from_file)
                      /\ ObtainRecord(a)
                   \/ /\ ~a.check /\ ~a.erase /\ ~(a.issue_id \/ a.from_file)
                      /\ EarlyReturn("none", <<>>, ReturnedNone)
    /\ UNCHANGED <<world, exit_status, archivePath, sideVars>>

\* handle_tagging, the handler of the command line: it returns None on every path
HandleTagging ==
    /\ pc = "idle" /\ returned = NotCalled
    /\ \E a \in CliRequests(archivePath) :
          /\ args' = a
          /\ \/ /\ ~ValidPath(world, archivePath, a.cbz_file_path)
                /\ EarlyReturn("none", <<>>, ReturnedNone)
             \/ /\ ValidPath(world, archivePath, a.cbz_file_path)
                /\ \/ /\ a.erase
                      /\ CallErase
                   \/ /\ ~a.erase /\ ~a.issue_id /\ ~a.from_file
                      /\ EarlyReturn("none", <<>>, ReturnedNone)
                   \/ /\ ~a.erase /\ (a.issue_id \/ a.from_file)
                      /\ ObtainRecord(a)
    /\ UNCHANGED <<world, exit_status, archivePath, sideVars>>

\* the store has returned, and the handler returns None
HandlerReturn ==
    /\ pc = "done" /\ returned = Pending
    /\ returned' = ReturnedNone
    /\ UNCHANGED <<sideVars, archive, tempFile, temp_fd, sameFs, pc, op, overwrite_all,
                   comic_info_metadata, existing_comic_info_root, xml_string_bytes, result,
                   failedAt, orig, staged, tempsCreated, swapStarted, prev, inspected, args,
                   world, exit_status, netCalls, netInFlight, mapperCalls, archivePath>>

\* main: the handler is called and its value dropped; the process ends with status 0
\* unless an exception escaped
CliExit ==
    /\ args.origin = "cli"
    /\ returned.kind \in {"None", "AttributeError"}
    /\ exit_status = -1
    /\ exit_status' = IF returned.kind = "None" THEN 0 ELSE 1
    /\ UNCHANGED <<sideVars, archive, tempFile, temp_fd, sameFs, pc, op, overwrite_all,
                   comic_info_metadata, existing_comic_info_root, xml_string_bytes, result,
                   failedAt, orig, staged, tempsCreated, swapStarted, prev, inspected, args,
                   world, returned, netCalls, netInFlight, mapperCalls, archivePath>>

DispatchNext ==
    \/ HandleTaggingDispatch
    \/ HandleTagging
    \/ FetchResponse
    \/ HandlerReturn
    \/ CliExit
    \/ WriteReadExisting
    \/ WriteBuildXml
    \/ WriteMkstemp
    \/ WriteStage
    \/ WriteSwap
    \/ WriteCopyAcross
    \/ EraseCheck
    \/ EraseMkstemp
    \/ EraseStage
    \/ EraseSwap
    \/ EraseCopyAcross

DispatchSpec == DispatchInit /\ [][DispatchNext]_vars

-----------------------------------------------------------------------------
(* What the claims speak of *)

\* the spellings of the reserved name, whatever the store takes for a match
ReservedSpellings == {"ComicInfo.xml", "comicinfo.xml"}

Reserved(file) == {i \in 1..Len(file.entries) : file.entries[i].filename \in ReservedSpellings}

Others(file) == SelectSeq(file.entries, LAMBDA e : e.filename \notin ReservedSpellings)

\* a store operation has returned
Returned(kind) == pc = "done" /\ op = kind /\ result # "none"

Succeeded(kind) == pc = "done" /\ op = kind /\ result = "True"

\* the elements of the metadata entry of the archive
WrittenElems == ZipRead(archive, "ComicInfo.xml").elems

\* the entry the store reads as the existing one: the archive's reader resolves the
\* first matching name
ExistingData ==
    ZipRead(orig, orig.entries[CHOOSE i \in Reserved(orig) :
                                  \A j \in Reserved(orig) : i <= j].filename)

NonBlankKeys(md) == {md[i][1] : i \in {j \in 1..Len(md) : ~IsBlankValue(md[j][2])}}

FirstWith(els, t) == els[CHOOSE i \in 1..Len(els) :
                            els[i].tag = t /\ \A j \in 1..(i - 1) : els[j].tag # t]

\* C1: while a tag write or an erase runs and when it has returned, the file at the
\* archive path is the complete original container or the complete new one.
C1_OriginalOrNew ==
    op \in {"tag", "erase"} =>
        \/ archive = orig
        \/ staged # <<>> /\ archive = staged[1]

\* C2: a failure before the swap (reading, creating the temporary file, staging)
\* returns False and leaves the archive as it was.
C2_FailureBeforeSwap ==
    (pc = "done" /\ op \in {"tag", "erase"} /\ failedAt \in {"read", "mkstemp", "stage"}) =>
        result = "False" /\ archive = orig

C2_Witness ==
    /\ pc = "done" /\ op = "tag" /\ failedAt = "stage"
    /\ orig.complete /\ Reserved(orig) # {} /\ Len(Others(orig)) > 0
    /\ tempsCreated = 1

\* C3: after a successful tag write or erase the entries that are not the metadata
\* entry are the original ones, in order, each with its own content, and a tag
\* write puts the metadata entry after them.
C3_OthersPreserved ==
    (Succeeded("tag") \/ Succeeded("erase")) =>
        /\ Others(archive) = Others(orig)
        /\ op = "tag" => archive.entries[Len(archive.entries)].filename \in ReservedSpellings

\* C4: a merge into an existing entry that parses writes every non-empty field of
\* the new record with its new value and leaves every other field of the existing
\* entry as it was.
C4_MergeKeepsOthers ==
    (Succeeded("tag") /\ ~overwrite_all /\ Reserved(orig) # {} /\ ExistingData.wf) =>
        /\ \A k \in NonBlankKeys(comic_info_metadata) :
              /\ \E j \in 1..Len(WrittenElems) : WrittenElems[j].tag = k
              /\ FirstWith(WrittenElems, k).text = Get(comic_info_metadata, k)
        /\ \A j \in 1..Len(ExistingData.elems) :
              ExistingData.elems[j].tag \notin NonBlankKeys(comic_info_metadata) =>
                  /\ j <= Len(WrittenElems)
                  /\ WrittenElems[j] = ExistingData.elems[j]

\* existing Title=q; the new record holds Zed and a blank Title: Title=q is kept
C4_Witness ==
    /\ Succeeded("tag") /\ ~overwrite_all /\ Reserved(orig) # {}
    /\ ExistingData = ExistingDoc
    /\ comic_info_metadata = << <<"Zed", S_x>>, <<"Title", S_blank>> >>
    /\ WrittenElems = <<Elem("Title", S_q), Elem("Zed", S_x)>>

\* C5: in overwrite mode every field of the written entry is a field of the new
\* record with the record's value; nothing of the previous entry is kept.
C5_OverwriteOnlyNew ==
    (Succeeded("tag") /\ overwrite_all) =>
        \A j \in 1..Len(WrittenElems) :
            /\ HasKey(comic_info_metadata, WrittenElems[j].tag)
            /\ WrittenElems[j].text = Get(comic_info_metadata, WrittenElems[j].tag)

C5_Witness ==
    /\ Succeeded("tag") /\ overwrite_all /\ Reserved(orig) # {}
    /\ ExistingData = ExistingDoc
    /\ comic_info_metadata = << <<"Zed", S_x>> >>
    /\ WrittenElems = <<Elem("Zed", S_x)>>

\* C6: a tag repeated with the same record and the same mode writes the same
\* serialized document as the first one.
C6_SameBytesTwice ==
    (/\ Succeeded("tag")
     /\ prev.op = "tag" /\ prev.result = "True"
     /\ prev.overwrite_all = overwrite_all) =>
        xml_string_bytes = prev.written

\* what the inspector is to return for a written value: the value trimmed, and for a
\* list tag with several items the trimmed items
ReadBack(k, v) ==
    LET items == StrippedItems(SplitComma(v, <<>>))
    IN  IF k \in known_list_tags /\ Len(items) >= 2
        THEN [isList |-> TRUE, text |-> <<>>, items |-> items]
        ELSE [isList |-> FALSE, text |-> Strip(v), items |-> <<>>]

TaggedFreshThenRead ==
    /\ pc = "done" /\ op = "check"
    /\ prev.op = "tag" /\ prev.result = "True" /\ ~prev.hadEntry

\* C7 as claimed: read back after a tag of an archive without metadata entry, the
\* fields are the non-empty fields of the record, each with the written value.
C7_RoundTripVerbatim ==
    TaggedFreshThenRead =>
        /\ inspected.found
        /\ DOMAIN inspected.info = NonBlankKeys(comic_info_metadata)
        /\ \A k \in DOMAIN inspected.info :
              inspected.info[k] =
                  [isList |-> FALSE, text |-> Get(comic_info_metadata, k), items |-> <<>>]

\* C7 amended: the fields are the non-empty fields of the record, each with the
\* written value trimmed, a list tag with several comma-separated items as the list of
\* its trimmed items.
C7_RoundTripTrimmed ==
    TaggedFreshThenRead =>
        /\ inspected.found
        /\ DOMAIN inspected.info = NonBlankKeys(comic_info_metadata)
        /\ \A k \in DOMAIN inspected.info :
              inspected.info[k] = ReadBack(k, Get(comic_info_metadata, k))

C7_Witness ==
    /\ TaggedFreshThenRead
    /\ comic_info_metadata = << <<"Zed", S_x>>, <<"Writer", S_xy>> >>
    /\ inspected.found
    /\ inspected.info["Writer"].isList

\* C8: no element written by a tag from the new record has an empty trimmed value.
C8_NoEmptyFieldWritten ==
    Succeeded("tag") =>
        LET before == IF ~overwrite_all /\ Truthy(existing_comic_info_root)
                      THEN existing_comic_info_root[1].children ELSE <<>>
        IN  \A j \in 1..Len(WrittenElems) :
                (j > Len(before) \/ WrittenElems[j] # before[j]) =>
                    Strip(WrittenElems[j].text) # <<>>

\* C9: after a successful tag write exactly one entry bears the reserved name in any
\* letter case, and it is named ComicInfo.xml; after a successful erase none does.
C9_OneReservedEntry ==
    /\ Succeeded("tag") =>
          /\ Cardinality(Reserved(archive)) = 1
          /\ \A i \in Reserved(archive) : archive.entries[i].filename = "ComicInfo.xml"
    /\ Succeeded("erase") => Reserved(archive) = {}

C9_Witness ==
    /\ Succeeded("tag")
    /\ Cardinality(Reserved(orig)) >= 2
    /\ \E i \in Reserved(orig) : orig.entries[i].filename = "comicinfo.xml"
    /\ Cardinality(Reserved(archive)) = 1

\* C10: an erase of an archive without an entry of the reserved name returns success,
\* creates no temporary file, starts no swap and leaves the archive as it was.
C10_EraseNoOp ==
    (pc = "done" /\ op = "erase" /\ orig.complete /\ Reserved(orig) = {}) =>
        /\ result = "True"
        /\ archive = orig
        /\ tempsCreated = 0
        /\ ~swapStarted
        /\ staged = <<>>
        /\ tempFile = <<>>

C10_Witness ==
    /\ pc = "done" /\ op = "erase" /\ orig.complete /\ Reserved(orig) = {}
    /\ Len(orig.entries) >= 2
    /\ result = "True"

\* every value of the record that is not None is an element, and every element is one
BuiltFromRecordOnly(data, md) ==
    /\ data.decl = {"xmlns:xsi", "xmlns:xsd"}
    /\ \A j \in 1..Len(data.elems) :
          /\ HasKey(md, data.elems[j].tag)
          /\ data.elems[j].text = Get(md, data.elems[j].tag)
    /\ \A i \in 1..Len(md) :
          md[i][2] # None => \E j \in 1..Len(data.elems) : data.elems[j].tag = md[i][1]
    /\ \A i, j \in 1..Len(data.elems) : data.elems[i].tag = data.elems[j].tag => i = j

MergeOntoCorrupted ==
    /\ pc = "done" /\ op = "tag" /\ ~overwrite_all /\ comic_info_metadata # <<>>
    /\ orig.complete /\ Reserved(orig) # {} /\ ~ExistingData.wf

\* C11: in merge mode an existing entry that does not parse is taken as absent: unless
\* reading the archive, creating the temporary file, staging or the swap fails, the
\* write succeeds and the entry is built from the new record alone.
C11_CorruptedNeverBlocks ==
    (MergeOntoCorrupted /\ failedAt \notin {"read", "mkstemp", "stage", "swap"}) =>
        /\ result = "True"
        /\ archive.complete
        /\ BuiltFromRecordOnly(ZipRead(archive, "ComicInfo.xml"), comic_info_metadata)

C11_Witness ==
    /\ MergeOntoCorrupted /\ result = "True"
    /\ comic_info_metadata = << <<"Zed", S_x>>, <<"Title", S_xy>> >>
    /\ WrittenElems = <<Elem("Title", S_xy), Elem("Zed", S_x)>>

\* the entry the store reads as the existing metadata of the archive
StoreEntry(file) == ZipRead(file, FirstMatch(NameList(file))[1])

\* C18: the inspector finds the metadata entry under any spelling of its name, as the
\* store does: a check of an archive whose entry the store can read reports that entry.
C18_InspectorFindsLikeStore ==
    (/\ pc = "done" /\ op = "check" /\ archive.complete
     /\ FirstMatch(NameList(archive)) # <<>>
     /\ StoreEntry(archive).wf) =>
        /\ inspected.found
        /\ inspected.info = InfoDict(StoreEntry(archive).elems)

-----------------------------------------------------------------------------
(* Properties of the request handlers *)

HandlerEnded == returned.kind \notin {"none", "pending"}

ViaDispatch == args.origin \in {"menu", "caller"}

IsTag(a) == ~a.check /\ ~a.erase /\ (a.issue_id \/ a.from_file)

AskedPathValid == args.cbz_file_path = archivePath

AskedPathInvalid == args.cbz_file_path \in {MissingCbz, BookZip}

StoreNotInvoked == result = "none" /\ tempsCreated = 0 /\ tempFile = <<>> /\ archive = orig

\* C12: a tag request given to handle_tagging_dispatch comes back as the pair of the
\* outcome and the path: success and the final path after a successful write, failure
\* and the path as asked otherwise.
C12_DispatchReturnsPair ==
    (ViaDispatch /\ IsTag(args) /\ HandlerEnded) =>
        /\ returned.kind = "pair"
        /\ returned.success = (result = "True")
        /\ returned.path = IF result = "True" THEN archivePath ELSE args.cbz_file_path

DerivedName == deriveFilename(comic_info_metadata, S_cbz)

RenameSkipped ==
    \/ DerivedName = <<>>
    \/ LowerStr(DerivedName) = LowerStr(args.cbz_file_path)
    \/ DerivedName \in world.otherPaths

\* C13: after a successful write of a tag request with the rename flag, the archive
\* bears the name derived from the record, unless that name is the current one up to
\* case or a file of that name exists: then the archive keeps its name.
C13_RenameAfterTag ==
    (IsTag(args) /\ args.rename /\ HandlerEnded /\ result = "True") =>
        archivePath = IF RenameSkipped THEN args.cbz_file_path ELSE DerivedName

LookupFailed ==
    args.issue_id /\ (~world.catalog.answers \/ world.catalog.results = <<>>)

BlankOrNone(s) == s = None \/ Strip(s) = <<>>

CatalogRecordBlank ==
    /\ args.issue_id /\ world.catalog.answers /\ world.catalog.results # <<>>
    /\ LET r == world.catalog.results[1]
       IN  /\ BlankOrNone(r.name) /\ BlankOrNone(r.issue_number) /\ BlankOrNone(r.cover_date)
           /\ r.volume = <<>>

FileRecordBlank ==
    /\ ~args.issue_id /\ args.from_file /\ world.metadataFile.state = "object"
    /\ \A i \in 1..Len(world.metadataFile.loaded) :
          \/ world.metadataFile.loaded[i][2].t = "null"
          \/ /\ world.metadataFile.loaded[i][2].t = "str"
             /\ Strip(world.metadataFile.loaded[i][2].s) = <<>>

\* C14: a tag request whose catalog lookup failed, or whose source record has no field
\* with a non-empty value, ends without a call of the store and with the archive as it
\* was.
C14_NoUsableRecordNoWrite ==
    (/\ IsTag(args) /\ AskedPathValid /\ HandlerEnded
     /\ (LookupFailed \/ CatalogRecordBlank \/ FileRecordBlank)) =>
        StoreNotInvoked

BadMetadataFile ==
    /\ IsTag(args) /\ ~args.issue_id /\ args.from_file
    /\ world.metadataFile.state \in {"missing", "invalid_json", "not_object"}

\* C15: a request with an archive path that names no file or no .cbz file, or a tag
\* from a local file that is missing, is not JSON or holds no object, ends without a
\* request to the catalog, without a temporary file and with the archive as it was.
C15_InputErrorsNoSideEffects ==
    (HandlerEnded /\ (AskedPathInvalid \/ BadMetadataFile)) =>
        netCalls = 0 /\ mapperCalls = 0 /\ StoreNotInvoked

C15_Witness ==
    /\ HandlerEnded /\ AskedPathValid /\ BadMetadataFile
    /\ world.metadataFile.state = "invalid_json"
    /\ args.origin = "cli" /\ exit_status = 0
    /\ HasEntry(archive)

WritePcs == {"w_read", "w_build", "w_mkstemp", "w_stage", "w_swap", "w_copy"}

\* C16: while a request to the catalog awaits its response the store has not been
\* called (no temporary file, the archive as it was), and from the call of
\* write_comic_info_to_cbz to its return no request is sent or awaited.
C16_NetworkBeforeStore ==
    /\ [](netInFlight => (pc = "fetch" /\ StoreNotInvoked))
    /\ [][(pc \in WritePcs) => (netCalls' = netCalls /\ ~netInFlight /\ ~netInFlight')]_vars

C16_Witness ==
    /\ pc = "w_swap" /\ op = "tag" /\ args.issue_id
    /\ netCalls = 1 /\ ~netInFlight
    /\ tempFile # <<>>

WatchmenTagged ==
    /\ HandlerEnded /\ IsTag(args) /\ args.issue_id
    /\ world.catalog = Catalog(TRUE, <<WatchmenRecord>>)
    /\ orig.complete /\ Reserved(orig) = {}
    /\ result = "True"

WatchmenFields(info) ==
    /\ {"Title", "Number", "Year", "Month", "Day", "Series", "Publisher"} \subseteq DOMAIN info
    /\ info["Title"] = TextValue(<<"W", "a", "t", "c", "h", "m", "e", "n", " ", "#", "1">>)
    /\ info["Number"] = TextValue(<<"1">>)
    /\ info["Year"] = TextValue(<<"1", "9", "8", "6">>)
    /\ info["Month"] = TextValue(<<"9">>)
    /\ info["Day"] = TextValue(<<"1">>)
    /\ info["Series"] = TextValue(<<"W", "a", "t", "c", "h", "m", "e", "n">>)
    /\ info["Publisher"] = TextValue(<<"D", "C", " ", "C", "o", "m", "i", "c", "s">>)

\* C17 as claimed: the Watchmen record, written to an archive without metadata and
\* read back, shows Title, Number, Year, Month, Day, Series, Publisher and nothing else.
C17_WatchmenOnlyMapped ==
    WatchmenTagged =>
        /\ read_comic_info_from_archive(archive).found
        /\ WatchmenFields(read_comic_info_from_archive(archive).info)
        /\ DOMAIN read_comic_info_from_archive(archive).info =
              {"Title", "Number", "Year", "Month", "Day", "Series", "Publisher"}

\* C17 amended: read back are those seven fields and the two defaults of the mapper,
\* LanguageISO = en and Format = Comic, and nothing else.
C17_WatchmenWithDefaults ==
    WatchmenTagged =>
        /\ read_comic_info_from_archive(archive).found
        /\ WatchmenFields(read_comic_info_from_archive(archive).info)
        /\ DOMAIN read_comic_info_from_archive(archive).info =
              {"Title", "Number", "Year", "Month", "Day", "Series", "Publisher",
               "LanguageISO", "Format"}
        /\ read_comic_info_from_archive(archive).info["LanguageISO"] = TextValue(<<"e", "n">>)
        /\ read_comic_info_from_archive(archive).info["Format"] =
              TextValue(<<"C", "o", "m", "i", "c">>)

C17_Witness ==
    /\ WatchmenTagged /\ archive.complete
    /\ args.origin = "menu"
    /\ Len(WrittenElems) = 9

\* C19: the process of the command line ends with status 0 exactly when the tag or
\* erase it was asked for succeeded.
C19_ExitStatusTellsOutcome ==
    exit_status # -1 =>
        (exit_status = 0 <=> (op \in {"tag", "erase"} /\ result = "True"))

\* C20: an erase or inspect request for a valid path, given to handle_tagging_dispatch
\* with or without a source, ends in the erase of the store or in the inspector, with
\* no request to the catalog and no call of the mapper.
C20_EraseInspectBypass ==
    (ViaDispatch /\ AskedPathValid /\ (args.check \/ args.erase) /\ HandlerEnded) =>
        /\ returned.kind # "AttributeError"
        /\ op = IF args.check THEN "check" ELSE "erase"
        /\ netCalls = 0 /\ mapperCalls = 0

-----------------------------------------------------------------------------
(* Properties of the store, continued *)

\* C21: when the write or the erase has returned, no temporary file of the operation
\* is left and the descriptor of mkstemp is closed.
C21_NoTempLeft ==
    (pc = "done" /\ op \in {"tag", "erase"} /\ result # "none") =>
        tempFile = <<>> /\ ~temp_fd

C21_Witness ==
    /\ pc = "done" /\ op = "erase" /\ result = "False"
    /\ failedAt = "stage" /\ tempsCreated = 1
    /\ tempFile = <<>> /\ ~temp_fd

\* the tag was merged into the elements of an existing document
MergedInto ==
    /\ Succeeded("tag") /\ ~overwrite_all
    /\ Reserved(orig) # {} /\ ExistingData.wf /\ Len(ExistingData.elems) > 0

\* the fields this tag added to the document
InsertedKeys ==
    IF MergedInto
    THEN NonBlankKeys(comic_info_metadata)
            \ {ExistingData.elems[j].tag : j \in 1..Len(ExistingData.elems)}
    ELSE {comic_info_metadata[i][1] :
            i \in {j \in 1..Len(comic_info_metadata) : comic_info_metadata[j][2] # None}}

OrderPos(t) == CHOOSE i \in 1..Len(tag_order) : tag_order[i] = t

KeyPos(md, k) == CHOOSE i \in 1..Len(md) : md[i][1] = k

ElemPos(els, k) == CHOOSE i \in 1..Len(els) : els[i].tag = k

\* k1 is due before k2: by the canonical order, canonical before the others, the
\* others as the record holds them
DueBefore(k1, k2) ==
    \/ InTagOrder(k1) /\ InTagOrder(k2) /\ OrderPos(k1) < OrderPos(k2)
    \/ InTagOrder(k1) /\ ~InTagOrder(k2)
    \/ /\ ~InTagOrder(k1) /\ ~InTagOrder(k2)
       /\ KeyPos(comic_info_metadata, k1) < KeyPos(comic_info_metadata, k2)

\* C22: in the entry written by a successful tag, fresh, overwriting or merging, the
\* canonical fields added by the tag stand in the canonical order before the other
\* fields it added, and those stand in the order of the record.
C22_CanonicalOrder ==
    Succeeded("tag") =>
        \A k1, k2 \in InsertedKeys :
            (k1 # k2 /\ DueBefore(k1, k2)) =>
                ElemPos(WrittenElems, k1) < ElemPos(WrittenElems, k2)

-----------------------------------------------------------------------------
(* The mapper alone: one call of map_cv_to_comicinfo_dict on a catalog    *)
(* record.                                                                  *)

MaxCredits == 2

S_Zed == <<"Z", "e", "d">>

S_adam == <<"a", "d", "a", "m">>

S_Bob == <<"B", "o", "b">>

MapperNames == {S_Zed, S_adam, S_Bob}

MapperRoles ==
    {None, <<"W", "r", "i", "t", "e", "r">>, <<"l", "e", "t", "t", "e", "r", "e", "r", ",", " ", "i", "n", "k", "s">>, <<"p", "e", "n", "c", "i", "l", "e", "r", ",", " ", "p", "e", "n", "c", "i", "l", "s">>, <<"a", "r", "t">>, <<"C", "o", "v", "e", "r", " ", "A", "r", "t", "i", "s", "t">>,
     <<"c", "o", "l", "o", "r", "s">>, <<"l", "e", "t", "t", "e", "r", "e", "r">>}

Persons == {[name |-> n, role |-> r] : n \in MapperNames \cup {None}, r \in MapperRoles}

\* person_credits of no, one or two contributors
PersonLists ==
    {<<>>} \cup {<<p>> : p \in Persons} \cup {<<p, q>> : p, q \in Persons}

\* lists of credit items, an item given by its name
NameLists == SeqsUpTo(MapperNames \cup {None}, MaxCredits)

S_1986_09_01 == <<"1", "9", "8", "6", "-", "0", "9", "-", "0", "1">>

S_Sept1986 == <<"S", "e", "p", "t", " ", "1", "9", "8", "6">>

S_1986_13_01 == <<"1", "9", "8", "6", "-", "1", "3", "-", "0", "1">>

\* cover dates in none of the formats the mapper knows, or naming no day of the calendar
UnrecognizedDates == {S_Sept1986, S_1986_13_01}

CoverDates == {None, S_1986_09_01, <<"1", "9", "8", "7", "-", "0", "2">>, <<"1", "9", "8", "5">>} \cup UnrecognizedDates

S_Aliases == <<"X", "1", "\n", "X", "2">>

S_StoreDate == <<"1", "9", "8", "6", "-", "0", "8", "-", "0", "1">>

S_Deck == <<"<", "b", ">", "d", "k", "<", "/", "b", ">">>

\* records whose credits vary
CreditRecords ==
    {CvFull(None, None, None, <<>>, None, None, None, None, None,
            p, <<>>, <<>>, <<>>, <<>>, <<>>, <<>>) : p \in PersonLists}
    \cup {CvFull(None, None, None, <<>>, None, None, None, None, None,
                 <<>>, c, t, t, c, g, <<>>) :
             c \in NameLists, t \in {<<>>, <<S_Bob>>}, g \in NameLists}

\* records whose dates, volume and auxiliary facts vary
NoteRecords ==
    {CvFull(S_Watchmen1, S_1, d, v, a, sd, ds, dk, None,
            <<>>, <<>>, <<>>, <<>>, <<>>, <<>>, o) :
        d \in CoverDates,
        v \in {<<>>, WatchmenVolume, Volume(S_Watchmen, None, <<>>, None)},
        a \in {None, S_Aliases},
        sd \in {None, S_1986_09_01, S_StoreDate},
        ds \in {None, <<"<", "p", ">", "H", "i", "<", "/", "p", ">">>},
        dk \in {None, S_Deck},
        o \in {<<>>, <<S_Zed>>, <<S_Zed, S_adam>>}}

\* nothing but the function studied is running
Quiet ==
    /\ archive = Zip(<<>>)
    /\ sameFs = TRUE
    /\ comic_info_metadata = <<>>
    /\ StoreIdle
    /\ NoDispatch

MapperInit ==
    /\ Quiet
    /\ NoFetch
    /\ NoTranslation
    /\ NoCheck
    /\ cvInput \in CreditRecords \cup NoteRecords
    /\ mapOutput = <<>>
    /\ reported = FALSE
    /\ fallback_taken = <<>>
    /\ mapPc = "call"

\* the call of the mapper, from its first line to its return
MapRecord ==
    /\ mapPc = "call"
    /\ mapOutput' = map_cv_to_comicinfo_dict(cvInput)
    /\ reported' = CoverDateReported(cvInput)
    /\ fallback_taken' =
          [i \in 1..Len(cvInput.person_credits) |->
              /\ NonEmptyStr(cvInput.person_credits[i].name)
              /\ ArtistFallback(RolesOf(cvInput.person_credits[i]))]
    /\ mapPc' = "return"
    /\ UNCHANGED <<cvInput, storeVars, dispatchVars, fetchVars, translateVars, checkVars>>

\* the caller drops the result
MapReturn ==
    /\ mapPc = "return"
    /\ mapPc' = "idle"
    /\ UNCHANGED <<cvInput, mapOutput, reported, fallback_taken, storeVars, dispatchVars,
                   fetchVars, translateVars, checkVars>>

MapperNext == MapRecord \/ MapReturn

MapperSpec == MapperInit /\ [][MapperNext]_vars

-----------------------------------------------------------------------------
(* Properties of the mapper *)

Mapped == mapPc = "return"

\* the names of a comma-joined value
Items(v) == StrippedItems(SplitComma(v, <<>>))

ListTags ==
    {"Writer", "Penciller", "Inker", "Colorist", "Letterer", "CoverArtist", "Artist",
     "Editor", "Characters", "Teams", "Locations", "StoryArc", "Genre"}

\* C23: every list-valued field of the mapped record holds distinct names in
\* case-insensitive order: no name comes before one whose lower-case form is smaller,
\* and Characters holds exactly the names of character_credits.
C23_ListsSortedCaseless ==
    Mapped =>
        /\ \A k \in ListTags :
              HasKey(mapOutput, k) =>
                  \A i, j \in 1..Len(Items(Get(mapOutput, k))) :
                      i < j =>
                          /\ Items(Get(mapOutput, k))[i] # Items(Get(mapOutput, k))[j]
                          /\ ~StrLess(LowerStr(Items(Get(mapOutput, k))[j]),
                                      LowerStr(Items(Get(mapOutput, k))[i]))
        /\ NamesOf(cvInput.character_credits) # {} =>
              /\ HasKey(mapOutput, "Characters")
              /\ {Items(Get(mapOutput, "Characters"))[i] :
                     i \in 1..Len(Items(Get(mapOutput, "Characters")))}
                 = NamesOf(cvInput.character_credits)

NoDateField(k) == ~HasKey(mapOutput, k)

\* C24 as stated: a cover date in no recognized format is reported and the mapped
\* record has none of Year, Month and Day.
C24_UnrecognizedLeavesNoDate ==
    (Mapped /\ cvInput.cover_date \in UnrecognizedDates) =>
        /\ reported
        /\ NoDateField("Year") /\ NoDateField("Month") /\ NoDateField("Day")

\* C24, amended: a cover date in no recognized format is reported and the mapped record
\* has neither Month nor Day; it has a Year only when the volume has a start_year, and
\* then that one.
C24_UnrecognizedLeavesNoIssueDate ==
    (Mapped /\ cvInput.cover_date \in UnrecognizedDates) =>
        /\ reported
        /\ NoDateField("Month") /\ NoDateField("Day")
        /\ HasKey(mapOutput, "Year") =>
              /\ cvInput.volume # <<>>
              /\ Get(mapOutput, "Year") = cvInput.volume[1].start_year

C24_Witness ==
    /\ Mapped
    /\ cvInput.cover_date = S_Sept1986
    /\ cvInput.volume = WatchmenVolume
    /\ reported
    /\ HasKey(mapOutput, "Year") /\ Get(mapOutput, "Year") = S_1986
    /\ NoDateField("Month")

\* the year an issue-level cover date names, <<>> when it names none
IssueYear ==
    IF cvInput.cover_date = S_1986_09_01 THEN <<S_1986>>
    ELSE IF cvInput.cover_date = <<"1", "9", "8", "7", "-", "0", "2">> THEN <<<<"1", "9", "8", "7">>>>
    ELSE IF cvInput.cover_date = <<"1", "9", "8", "5">> THEN <<<<"1", "9", "8", "5">>>>
    ELSE <<>>

HasStartYear ==
    cvInput.volume # <<>> /\ NonEmptyStr(cvInput.volume[1].start_year)

\* C25 as stated: a Year the cover date yields is the mapped Year, and the mapped Year
\* is the volume's start_year only when the record has no cover date.
C25_StartYearOnlyWithoutCoverDate ==
    Mapped =>
        /\ IssueYear # <<>> => HasKey(mapOutput, "Year") /\ Get(mapOutput, "Year") = IssueYear[1]
        /\ (IssueYear = <<>> /\ HasKey(mapOutput, "Year")) => cvInput.cover_date = None

\* C25, amended: a Year the cover date yields is the mapped Year; when the cover date
\* yields none, being absent or unrecognized, the mapped Year is the volume's
\* start_year if it has one, and else there is no Year.
C25_StartYearWhenNoIssueYear ==
    Mapped =>
        /\ IssueYear # <<>> => HasKey(mapOutput, "Year") /\ Get(mapOutput, "Year") = IssueYear[1]
        /\ (IssueYear = <<>> /\ HasStartYear) =>
              HasKey(mapOutput, "Year") /\ Get(mapOutput, "Year") = cvInput.volume[1].start_year
        /\ (IssueYear = <<>> /\ ~HasStartYear) => ~HasKey(mapOutput, "Year")

C25_Witness ==
    /\ Mapped
    /\ cvInput.cover_date = <<"1", "9", "8", "7", "-", "0", "2">>
    /\ cvInput.volume = WatchmenVolume
    /\ Get(mapOutput, "Year") = <<"1", "9", "8", "7">>

\* the first position of sub in s, 0 when it is not there
Find(s, sub) ==
    IF Contains(s, sub)
    THEN 1 + CHOOSE i \in 0..(Len(s) - Len(sub)) :
                 /\ SubSeq(s, i + 1, i + Len(sub)) = sub
                 /\ \A j \in 0..(i - 1) : SubSeq(s, j + 1, j + Len(sub)) # sub
    ELSE 0

\* the paragraphs the auxiliary facts of the record call for: label and text
DueParagraphs ==
    (IF NonEmptyStr(cvInput.aliases)
     THEN {<<<<"A", "l", "i", "a", "s", "e", "s", ":">>, <<"X", "1", "\n", "X", "2">>>>} ELSE {})
    \cup (IF /\ NonEmptyStr(cvInput.store_date)
             /\ cvInput.store_date # cvInput.cover_date
          THEN {<<<<"S", "t", "o", "r", "e", " ", "D", "a", "t", "e", ":", " ">>, cvInput.store_date>>} ELSE {})
    \cup (IF NonEmptyStr(cvInput.deck)
          THEN {<<<<"D", "e", "c", "k", " ", "(", "S", "u", "m", "m", "a", "r", "y", ")", ":", " ">>, <<"d", "k">>>>} ELSE {})
    \cup (IF cvInput.object_credits = <<S_Zed>>
          THEN {<<<<"O", "b", "j", "e", "c", "t", "s", ":", " ">>, S_Zed>>} ELSE {})
    \cup (IF cvInput.object_credits = <<S_Zed, S_adam>>
          THEN {<<<<"O", "b", "j", "e", "c", "t", "s", ":", " ">>, <<"Z", "e", "d", ",", " ", "a", "d", "a", "m">>>>} ELSE {})

\* C26: every auxiliary fact of the record is in Notes under its label, and a label
\* that does not open Notes follows a line break.
C26_NotesParagraphs ==
    (Mapped /\ cvInput \in NoteRecords) =>
        \A p \in DueParagraphs :
            /\ HasKey(mapOutput, "Notes")
            /\ Contains(Get(mapOutput, "Notes"), p[1])
            /\ Contains(SubSeq(Get(mapOutput, "Notes"), Find(Get(mapOutput, "Notes"), p[1]),
                               Len(Get(mapOutput, "Notes"))), p[2])
            /\ Find(Get(mapOutput, "Notes"), p[1]) > 1 =>
                  Get(mapOutput, "Notes")[Find(Get(mapOutput, "Notes"), p[1]) - 1] = "\n"

\* the specific art-role tags
ArtTagsWithLetterer == {"Penciller", "Inker", "Colorist", "Letterer", "CoverArtist"}

\* C27: a named contributor is added to Artist by the fallback exactly when the role
\* holds a generic art term and the keyword table assigned none of Penciller, Inker,
\* Colorist, Letterer and CoverArtist; who is added is among the names of Artist.
C27_FallbackExactly ==
    Mapped =>
        \A i \in 1..Len(cvInput.person_credits) :
            LET person == cvInput.person_credits[i]
                tags == AssignedTags(RolesOf(person))
            IN  NonEmptyStr(person.name) =>
                    /\ fallback_taken[i] <=>
                          /\ \E g \in 1..Len(generic_art_roles) :
                                 Contains(RolesOf(person), generic_art_roles[g])
                          /\ \A t \in 1..Len(tags) : tags[t] \notin ArtTagsWithLetterer
                    /\ fallback_taken[i] =>
                          /\ HasKey(mapOutput, "Artist")
                          /\ \E n \in 1..Len(Items(Get(mapOutput, "Artist"))) :
                                 Items(Get(mapOutput, "Artist"))[n] = person.name

-----------------------------------------------------------------------------
(* The catalog client alone: one call of make_comicvine_api_request.  A     *)
(* call of requests.get ends within CV_REQUEST_TIMEOUT seconds with a       *)
(* response or with an exception.                                           *)

CV_MAX_RETRIES == 3

FetchUrls == {"issue", "volume", "search"}

\* what requests.get may give: a body that is a JSON object with its error and its
\* number of results, a JSON array, or text that is no JSON; an exception
Responses ==
    {Response(200, "none", "object", "OK", n) : n \in 0..2}
    \cup {Response(200, "none", "object", e, 0) : e \in {"Object Not Found", "Invalid API Key"}}
    \cup {Response(200, "none", b, "", 0) : b \in {"array", "text"}}
    \cup {Response(st, "none", "text", "", 0) : st \in {401, 404, 429, 500, 503}}
    \cup {Response(0, x, "none", "", 0) : x \in {"Timeout", "ConnectionError", "Exception"}}

FetchInit ==
    /\ Quiet
    /\ NoMapping
    /\ NoTranslation
    /\ NoCheck
    /\ fetchUrl \in FetchUrls
    /\ retries = 0
    /\ requestsSent = 0
    /\ lastResponse = NoResponse
    /\ fetchResult = NotReturned
    /\ fetchPc = "loop"

\* the head of the while loop and the call of requests.get; the return after the loop
SendRequest ==
    /\ fetchPc = "loop"
    /\ IF retries <= CV_MAX_RETRIES
       THEN /\ requestsSent' = requestsSent + 1
            /\ fetchPc' = "waiting"
            /\ UNCHANGED fetchResult
       ELSE /\ fetchResult' = ReturnNone
            /\ fetchPc' = "returned"
            /\ UNCHANGED requestsSent
    /\ UNCHANGED <<fetchUrl, retries, lastResponse, storeVars, dispatchVars, mapperVars,
                   translateVars, checkVars>>

\* a loop body that tries again after every status that is not 200
AfterResponseRetryAnyStatus(r) ==
    IF r.raised # "none" THEN
        /\ fetchResult' = ReturnNone /\ fetchPc' = "returned" /\ UNCHANGED retries
    ELSE IF r.status = 200 THEN
        /\ fetchResult' = IF r.body = "object" /\ r.error = "OK"
                          THEN ReturnData(r) ELSE ReturnNone
        /\ fetchPc' = "returned"
        /\ UNCHANGED retries
    ELSE IF retries < CV_MAX_RETRIES THEN
        /\ retries' = retries + 1 /\ fetchPc' = "loop" /\ UNCHANGED fetchResult
    ELSE
        /\ fetchResult' = ReturnNone /\ fetchPc' = "returned" /\ UNCHANGED retries

\* what the body of the loop does with a response or an exception of requests.get
AfterResponse(r) ==
    IF r.raised # "none" THEN
        /\ fetchResult' = ReturnNone /\ fetchPc' = "returned" /\ UNCHANGED retries
    ELSE IF r.status = 200 THEN
        /\ fetchResult' = IF r.body = "object" /\ r.error = "OK"
                          THEN ReturnData(r) ELSE ReturnNone
        /\ fetchPc' = "returned"
        /\ UNCHANGED retries
    ELSE IF r.status = 429 /\ retries < CV_MAX_RETRIES THEN
        /\ retries' = retries + 1 /\ fetchPc' = "loop" /\ UNCHANGED fetchResult
    ELSE
        /\ fetchResult' = ReturnNone /\ fetchPc' = "returned" /\ UNCHANGED retries

\* requests.get returns or raises, and the loop body runs to its return or its continue
Receive ==
    /\ fetchPc = "waiting"
    /\ \E r \in Responses :
          /\ lastResponse' = r
          /\ AfterResponse(r)
    /\ UNCHANGED <<fetchUrl, requestsSent, storeVars, dispatchVars, mapperVars,
                   translateVars, checkVars>>

FetchNext == SendRequest \/ Receive

FetchSpec == FetchInit /\ [][FetchNext]_vars

\* the function runs on: requests.get ends by its timeout, time.sleep by its delay
FetchLive == FetchSpec /\ WF_vars(FetchNext)

-----------------------------------------------------------------------------
(* Properties of the catalog client *)

FetchReturned == fetchPc = "returned"

IsOk(r) == r.raised = "none" /\ r.status = 200 /\ r.body = "object" /\ r.error = "OK"

FetchBounded ==
    /\ requestsSent <= CV_MAX_RETRIES + 1
    /\ FetchReturned =>
          /\ IsOk(lastResponse) => fetchResult = ReturnData(lastResponse)
          /\ ~IsOk(lastResponse) => fetchResult = ReturnNone
          /\ requestsSent >= 1

\* a request follows a 429, and what follows any other response is the return
FetchStep ==
    /\ (requestsSent' > requestsSent /\ requestsSent > 0) =>
          (lastResponse.raised = "none" /\ lastResponse.status = 429)
    /\ (fetchPc = "waiting" /\ (lastResponse'.raised # "none" \/ lastResponse'.status # 429)) =>
          (fetchPc' = "returned" /\ requestsSent' = requestsSent)
    /\ FetchReturned => UNCHANGED fetchVars

\* C28: make_comicvine_api_request returns; it sends at most CV_MAX_RETRIES + 1 requests,
\* a further one only after a 429; it returns the data of a 200 response whose error is
\* "OK" and None after every other outcome, with no further request.
C28_FetchTerminates ==
    /\ []FetchBounded
    /\ [][FetchStep]_vars
    /\ <>FetchReturned

C28_Witness ==
    /\ FetchReturned
    /\ requestsSent = CV_MAX_RETRIES + 1
    /\ lastResponse.status = 429
    /\ fetchResult = ReturnNone

-----------------------------------------------------------------------------
(* The translator alone: one call of translate_text.  A call of             *)
(* requests.post ends within TRANSLATION_REQUEST_TIMEOUT seconds.           *)

MaxRetries == 2

S_Hi == <<"H", "i">>

S_Czesc == <<"C", "z", "e", "s", "c">>

S_Hallo == <<"H", "a", "l", "l", "o">>

\* _generate_cache_key: the digest of text, languages and model, taken as free of
\* collisions; the source language and the model are the same in every call
CacheKey(a) == <<a.text_to_translate, "en", a.target_language_code>>

\* cache_key in _translation_cache
InCache(cache, key) == \E e \in cache : e[1] = key

\* _translation_cache[cache_key]
Cached(cache, key) == (CHOOSE e \in cache : e[1] = key)[2]

\* _translation_cache[cache_key] = translated_text
CachePut(cache, key, value) == {e \in cache : e[1] # key} \cup {<<key, value>>}

Caches ==
    {{}, {<<<<S_Hi, "en", "pl">>, S_Czesc>>},
     {<<<<S_Hi, "en", "de">>, S_Hallo>>, <<<<S_x, "en", "pl">>, S_q>>}}

Replies ==
    {Reply("content", c) : c \in {S_empty, S_blank, S_Czesc, <<" ">> \o S_Hallo \o <<"\n">>}}
    \cup {Reply(k, <<>>) :
             k \in {"HTTPError", "Timeout", "ConnectionError", "no choices", "array",
                    "null content"}}

TranslateInit ==
    /\ Quiet
    /\ NoMapping
    /\ NoFetch
    /\ NoCheck
    /\ trArgs \in {TranslateArgs(t, l, m) :
                      t \in {None, S_empty, S_blank, S_Hi, S_x},
                      l \in {"pl", "de"},
                      m \in -1..MaxRetries}
    /\ apiKeySet \in BOOLEAN
    /\ translation_cache \in Caches
    /\ cacheAtCall = translation_cache
    /\ attempt = 0
    /\ postsSent = 0
    /\ lastReply = NoReply
    /\ trResult = NotReturned
    /\ trPc = "call"

\* return value
TranslateReturn(value) ==
    /\ trResult' = ReturnData(value)
    /\ trPc' = "returned"

\* not text_to_translate or not text_to_translate.strip()
BlankText(text) == text = None \/ text = <<>> \/ Strip(text) = <<>>

\* from the first line to the head of the loop
TranslateEnter ==
    /\ trPc = "call"
    /\ IF BlankText(trArgs.text_to_translate) \/ ~apiKeySet
       THEN TranslateReturn(trArgs.text_to_translate)
       ELSE IF InCache(translation_cache, CacheKey(trArgs))
       THEN TranslateReturn(Cached(translation_cache, CacheKey(trArgs)))
       ELSE IF trArgs.max_retries + 1 <= 0
       THEN TranslateReturn(trArgs.text_to_translate)
       ELSE trPc' = "post" /\ UNCHANGED trResult
    /\ UNCHANGED <<trArgs, apiKeySet, translation_cache, cacheAtCall, attempt, postsSent,
                   lastReply, storeVars, dispatchVars, mapperVars, fetchVars, checkVars>>

\* requests.post(MISTRAL_API_URL, ...)
Post ==
    /\ trPc = "post"
    /\ postsSent' = postsSent + 1
    /\ trPc' = "waiting"
    /\ UNCHANGED <<trArgs, apiKeySet, translation_cache, cacheAtCall, attempt, lastReply,
                   trResult, storeVars, dispatchVars, mapperVars, fetchVars, checkVars>>

\* the next attempt if one is left, else the fallback to the original text
RetryOrFallBack ==
    IF attempt < trArgs.max_retries
    THEN attempt' = attempt + 1 /\ trPc' = "post" /\ UNCHANGED trResult
    ELSE TranslateReturn(trArgs.text_to_translate) /\ UNCHANGED attempt

\* a loop body that stores the content before looking at it
AfterReplyCachingFirst(r) ==
    IF r.kind = "content"
    THEN /\ translation_cache' = CachePut(translation_cache, CacheKey(trArgs), Strip(r.content))
         /\ IF Strip(r.content) # <<>>
            THEN TranslateReturn(Strip(r.content)) /\ UNCHANGED attempt
            ELSE RetryOrFallBack
    ELSE RetryOrFallBack /\ UNCHANGED translation_cache

\* the body of the loop after requests.post
AfterReply(r) ==
    IF r.kind = "content" /\ Strip(r.content) # <<>>
    THEN /\ translation_cache' = CachePut(translation_cache, CacheKey(trArgs), Strip(r.content))
         /\ TranslateReturn(Strip(r.content))
         /\ UNCHANGED attempt
    ELSE RetryOrFallBack /\ UNCHANGED translation_cache

\* requests.post returns or raises, and the loop body runs to its return or its next turn
ReceiveReply ==
    /\ trPc = "waiting"
    /\ \E r \in Replies :
          /\ lastReply' = r
          /\ AfterReply(r)
    /\ UNCHANGED <<trArgs, apiKeySet, cacheAtCall, postsSent, storeVars, dispatchVars,
                   mapperVars, fetchVars, checkVars>>

TranslateNext == TranslateEnter \/ Post \/ ReceiveReply

TranslateSpec == TranslateInit /\ [][TranslateNext]_vars

\* the function runs on: requests.post ends by its timeout, time.sleep by its delay
TranslateLive == TranslateSpec /\ WF_vars(TranslateNext)

-----------------------------------------------------------------------------
(* Properties of the translator *)

TranslateReturned == trPc = "returned"

\* the latest reply carried content that is not blank
GotTranslation == lastReply.kind = "content" /\ Strip(lastReply.content) # <<>>

\* the call looked its key up and found it
CacheHit ==
    /\ ~BlankText(trArgs.text_to_translate)
    /\ apiKeySet
    /\ InCache(cacheAtCall, CacheKey(trArgs))

TranslateBounded ==
    /\ postsSent <= (IF trArgs.max_retries + 1 > 0 THEN trArgs.max_retries + 1 ELSE 0)
    /\ trPc \in {"call", "post", "waiting", "returned"}
    /\ ~TranslateReturned => translation_cache = cacheAtCall
    /\ TranslateReturned =>
          /\ trResult.returned
          /\ CacheHit =>
                /\ trResult = ReturnData(Cached(cacheAtCall, CacheKey(trArgs)))
                /\ postsSent = 0
                /\ translation_cache = cacheAtCall
          /\ (~CacheHit /\ GotTranslation) =>
                /\ trResult = ReturnData(Strip(lastReply.content))
                /\ translation_cache
                      = cacheAtCall \cup {<<CacheKey(trArgs), Strip(lastReply.content)>>}
          /\ (~CacheHit /\ ~GotTranslation) =>
                /\ trResult = ReturnData(trArgs.text_to_translate)
                /\ translation_cache = cacheAtCall

\* C29: translate_text returns a value; it sends at most max_retries + 1 requests; it
\* returns the stripped content of a reply whose content is not blank and else the
\* original text; a cache hit returns the cached value with no request; the cache gains
\* an entry, for this call's key, only with a translation that is not blank.
C29_TranslateFallsBack ==
    /\ []TranslateBounded
    /\ [][TranslateReturned => UNCHANGED translateVars]_vars
    /\ <>TranslateReturned

C29_Witness ==
    /\ TranslateReturned
    /\ trArgs = TranslateArgs(S_Hi, "pl", MaxRetries)
    /\ postsSent = MaxRetries + 1
    /\ lastReply = Reply("content", S_blank)
    /\ trResult = ReturnData(S_Hi)
    /\ translation_cache = cacheAtCall

-----------------------------------------------------------------------------
(* The check handler alone: one call of handle_check on paths that resolve  *)
(* to the .cbz files of files_to_check_q.                                   *)

MaxQueue == 3

\* the paths of three archives
CheckPaths == {<<"/", "a", ".", "c", "b", "z">>, <<"/", "B", ".", "c", "b", "z">>, <<"/", "c", ".", "c", "b", "z">>}

\* an archive with a record, with an empty record, without one, and a file that is no
\* ZIP container
CheckFiles ==
    {Zip(<<Entry("a.jpg", Page("p1")), Entry("ComicInfo.xml", ExistingDoc)>>),
     Zip(<<Entry("ComicInfo.xml", Doc({}, <<>>))>>),
     Zip(<<Entry("a.jpg", Page("p1"))>>),
     [complete |-> FALSE, entries |-> <<>>]}

\* the names the module inspect_files binds by its imports: shutil is not among them
ImportedNames == {"os", "ET", "zipfile", "sys", "Style", "print_error", "print_info",
                  "print_header_line", "print_field", "print_multiline_text",
                  "make_clickable_link"}

\* set(files_to_check_q)
QueueSet(q) == {q[i] : i \in 1..Len(q)}

CheckInit ==
    /\ Quiet
    /\ NoMapping
    /\ NoFetch
    /\ NoTranslation
    /\ files_to_check_q \in SeqsUpTo(CheckPaths, MaxQueue)
    /\ shelf \in [CheckPaths -> CheckFiles]
    /\ shelfAtCall = shelf
    /\ unique_files_to_check = <<>>
    /\ checkIndex = 1
    /\ displayed = <<>>
    /\ found_tags_count = 0
    /\ summary = <<>>
    /\ checkPc = "call"

\* from the first line to the head of the loop: no file, and the handler returns
CheckEnter ==
    /\ checkPc = "call"
    /\ IF files_to_check_q = <<>>
       THEN checkPc' = "returned" /\ UNCHANGED unique_files_to_check
       ELSE /\ unique_files_to_check' = Sorted(QueueSet(files_to_check_q))
            /\ checkPc' = "loop"
    /\ UNCHANGED <<files_to_check_q, shelf, shelfAtCall, checkIndex, displayed,
                   found_tags_count, summary, storeVars, dispatchVars, mapperVars,
                   fetchVars, translateVars>>

\* one turn of the loop: read, display, count, and the separator before the next file
CheckFile(names) ==
    /\ checkPc = "loop"
    /\ LET comic_file_path == unique_files_to_check[checkIndex]
           comic_info_data_dict == read_comic_info_from_archive(shelf[comic_file_path])
       IN  /\ displayed' = Append(displayed, comic_file_path)
           /\ found_tags_count' =
                 IF comic_info_data_dict.found /\ comic_info_data_dict.info # <<>>
                 THEN found_tags_count + 1 ELSE found_tags_count
    /\ IF checkIndex < Len(unique_files_to_check)
       THEN IF "shutil" \in names
            THEN checkIndex' = checkIndex + 1 /\ UNCHANGED checkPc
            ELSE checkPc' = "raised" /\ UNCHANGED checkIndex
       ELSE checkPc' = "summary" /\ UNCHANGED checkIndex
    /\ UNCHANGED <<files_to_check_q, shelf, shelfAtCall, unique_files_to_check, summary,
                   storeVars, dispatchVars, mapperVars, fetchVars, translateVars>>

CheckNextFile == CheckFile(ImportedNames)

\* the lines after the loop
CheckSummary ==
    /\ checkPc = "summary"
    /\ summary' = <<[processed |-> Len(unique_files_to_check), found |-> found_tags_count]>>
    /\ checkPc' = "returned"
    /\ UNCHANGED <<files_to_check_q, shelf, shelfAtCall, unique_files_to_check, checkIndex,
                   displayed, found_tags_count, storeVars, dispatchVars, mapperVars,
                   fetchVars, translateVars>>

CheckNext == CheckEnter \/ CheckNextFile \/ CheckSummary

CheckSpec == CheckInit /\ [][CheckNext]_vars

-----------------------------------------------------------------------------
(* Properties of the check handler *)

\* handle_check has ended, by a return or by an exception
CheckEnded == checkPc \in {"returned", "raised"}

\* C30: what handle_check has displayed is the beginning of the sorted distinct files and
\* no archive has changed; when it ends with one file or more, it has displayed them all
\* once and printed the summary, whose count of files with metadata is at most their
\* number.
C30_CheckDisplaysAllThenSummary ==
    /\ shelf = shelfAtCall
    /\ Len(displayed) <= Cardinality(QueueSet(files_to_check_q))
    /\ displayed = SubSeq(Sorted(QueueSet(files_to_check_q)), 1, Len(displayed))
    /\ (CheckEnded /\ files_to_check_q # <<>>) =>
          /\ displayed = Sorted(QueueSet(files_to_check_q))
          /\ summary # <<>>
          /\ summary[1].found <= Cardinality(QueueSet(files_to_check_q))

=============================================================================
